---- MODULE Spec2Model ----
(***************************************************************************)
(* Model of the Hoymiles transport layer in tools/rpi/hoymiles/__init__.py *)
(* (InverterPacketFragment, HoymilesNRF, the request composer and          *)
(* InverterTransaction).  Frames are sequences of bytes; Python's 0-based  *)
(* slices are written with Slice.  Python values that may be an int, a     *)
(* bytes object or None are tagged records (IntVal, BytesVal, NoneVal) so  *)
(* that "==" between an int and bytes is False as in Python.               *)
(* The reception timestamps and channel tags of a fragment (time_rx,       *)
(* ch_rx, ch_tx) are not modelled: no operation branches on them.          *)
(***************************************************************************)
EXTENDS Integers, Sequences, FiniteSets, TLC

(***************************************************************************)
(* Bounds of the model                                                     *)
(***************************************************************************)
\* number of InverterTransaction objects a run constructs
MaxTxn == 2
\* total number of fragments appended to all scratch buffers
MaxRx == 3
\* total number of packets ever appended to the TX queue
MaxEnq == 3
\* number of empty polls the radio counts (rx_error is an unbounded int)
MaxRxError == 5
\* total number of fragments read from the radio
MaxPolled == 2

\* receive(): turns of the polling loop until the initial deadline (12e8 ns)
\* and until the deadline after a fragment (5e8 ns), one turn being 4e8 ns
TimeoutTicks == 3
FragTicks == 2

(***************************************************************************)
(* Bytes, slices, integers                                                 *)
(***************************************************************************)
Slice(s, a, b) ==
    \* Python s[a:b] for 0 <= a and 0 <= b
    LET hi == IF b > Len(s) THEN Len(s) ELSE b
    IN IF a >= hi THEN <<>> ELSE SubSeq(s, a + 1, hi)

DropLast(s, k) ==
    \* Python s[:-k], k > 0
    IF Len(s) <= k THEN <<>> ELSE SubSeq(s, 1, Len(s) - k)

TakeLast(s, k) ==
    \* Python s[-k:], k > 0
    IF Len(s) <= k THEN s ELSE SubSeq(s, Len(s) - k + 1, Len(s))

RECURSIVE Xor(_, _)
Xor(a, b) ==
    IF a = 0 THEN b
    ELSE IF b = 0 THEN a
    ELSE ((a + b) % 2) + 2 * Xor(a \div 2, b \div 2)

RECURSIVE unpack_be(_)
unpack_be(bs) ==
    \* struct.unpack('>L' / '>H' / '>B', bs)[0]
    IF bs = <<>> THEN 0
    ELSE 256 * unpack_be(DropLast(bs, 1)) + bs[Len(bs)]

pack_H(n) == << (n \div 256) % 256, n % 256 >>

pack_L(n) ==
    << (n \div 16777216) % 256, (n \div 65536) % 256, (n \div 256) % 256, n % 256 >>

NoneVal == [t |-> "none", v |-> 0]
IntVal(n) == [t |-> "int", v |-> n]
BytesVal(bs) == [t |-> "bytes", v |-> bs]
PyEq(x, y) == x.t = y.t /\ x.v = y.v

(***************************************************************************)
(* Checksums: crcmod.mkCrcFun(0x101, initCrc=0, xorOut=0) and the          *)
(* predefined 'modbus' function, both reflected, computed bit by bit.      *)
(***************************************************************************)
RECURSIVE bytecrc_r(_, _, _)
bytecrc_r(crc, poly, k) ==
    \* crcmod _bytecrc_r: k shifts of the reflected register
    IF k = 0 THEN crc
    ELSE LET nxt == IF crc % 2 = 1 THEN Xor(crc \div 2, poly) ELSE crc \div 2
         IN IF nxt >= 0 THEN bytecrc_r(nxt, poly, k - 1) ELSE 0

RECURSIVE crc_r(_, _, _, _)
crc_r(data, crc, poly, i) ==
    \* crcmod _crc8r / _crc16r: table[(byte ^ crc) & 0xff] ^ (crc >> 8)
    IF i > Len(data) THEN crc
    ELSE LET nxt == Xor(bytecrc_r(Xor(crc % 256, data[i]), poly, 8), crc \div 256)
         IN IF nxt >= 0 THEN crc_r(data, nxt, poly, i + 1) ELSE 0

f_crc8(data) == crc_r(data, 0, 128, 1)

f_crc_m(data) == crc_r(data, 65535, 40961, 1)

(***************************************************************************)
(* Address codec.  A serial is the sequence of its decimal digits; None    *)
(* (and the empty string) is the empty sequence: both are falsy and both   *)
(* make int(..., base=16) raise ValueError.                                *)
(***************************************************************************)
NoSer == <<>>
InverterSer == <<1, 1, 4, 1, 7, 2, 2, 2, 0, 1, 4, 3>>
DtuSer == <<9, 9, 9, 7, 8, 5, 6, 3, 4, 1, 2>>

RECURSIVE int_base16(_)
int_base16(digits) ==
    IF digits = <<>> THEN 0
    ELSE 16 * int_base16(DropLast(digits, 1)) + digits[Len(digits)]

\* mutant of ser_to_hm_addr: only the last seven digits are taken
ser_to_hm_addr_last7(inverter_ser) ==
    IF inverter_ser = <<>>
    THEN [raised |-> TRUE, v |-> <<>>]
    ELSE [raised |-> FALSE, v |-> pack_L(int_base16(TakeLast(inverter_ser, 7)))]

ser_to_hm_addr(inverter_ser) ==
    \* [raised |-> TRUE] stands for the ValueError of int()
    IF inverter_ser = <<>>
    THEN [raised |-> TRUE, v |-> <<>>]
    ELSE [raised |-> FALSE, v |-> pack_L(int_base16(TakeLast(inverter_ser, 8)))]

Reverse(s) == [i \in 1..Len(s) |-> s[Len(s) + 1 - i]]

ser_to_esb_addr(inverter_ser) ==
    LET hm == ser_to_hm_addr(inverter_ser)
    IN IF hm.raised THEN hm
       ELSE [raised |-> FALSE, v |-> Reverse(Reverse(hm.v) \o <<1>>)]

(***************************************************************************)
(* InverterPacketFragment: a parsed fragment is its frame                  *)
(***************************************************************************)
\* mutant of crc8_ok: the trailer is not compared
crc8_ok_skipped(payload) == Len(payload) >= 0

crc8_ok(payload) == f_crc8(DropLast(payload, 1)) = payload[Len(payload)]

main_cmd(frame) == frame[1]
frag_src(frame) == unpack_be(Slice(frame, 1, 5))
\* the dst property: struct.unpack('>L', ...) wants exactly four bytes
frag_dst(frame) ==
    LET bs == Slice(frame, 5, 8)
    IN IF Len(bs) # 4 THEN [raised |-> "StructError", v |-> 0]
       ELSE [raised |-> "", v |-> unpack_be(bs)]
frag_seq(frame) == unpack_be(Slice(frame, 9, 10))
frag_data(frame) == DropLast(Slice(frame, 10, Len(frame)), 1)

(***************************************************************************)
(* Request composer                                                        *)
(***************************************************************************)
frame_payload(payload) == payload \o pack_H(f_crc_m(payload))

\* mutant of compose_esb_fragment: the length of the chunk is not checked
compose_esb_fragment_unchecked(fragment, maincmd, subcmd, src, dst) ==
    IF ser_to_hm_addr(dst).raised \/ ser_to_hm_addr(src).raised
    THEN [raised |-> "ValueError", v |-> <<>>]
    ELSE LET packet == maincmd \o ser_to_hm_addr(dst).v \o ser_to_hm_addr(src).v
                       \o subcmd \o fragment
         IN [raised |-> "", v |-> packet \o <<f_crc8(packet)>>]

compose_esb_fragment(fragment, maincmd, subcmd, src, dst) ==
    \* raised: "" (none), "ValueError"
    IF Len(fragment) > 17 THEN [raised |-> "ValueError", v |-> <<>>]
    ELSE IF ser_to_hm_addr(dst).raised \/ ser_to_hm_addr(src).raised
    THEN [raised |-> "ValueError", v |-> <<>>]
    ELSE LET packet == maincmd \o ser_to_hm_addr(dst).v \o ser_to_hm_addr(src).v
                       \o subcmd \o fragment
         IN [raised |-> "", v |-> packet \o <<f_crc8(packet)>>]

compose_set_time_payload(timestamp) ==
    frame_payload(<<11, 0>> \o pack_L(timestamp) \o <<0, 0, 0, 5, 0, 0, 0, 0>>)

\* the request of scan.py: first fragment of compose_esb_packet over the
\* set-time payload, with the default opcode bytes 80 0b
SetTimeStamp == 1651400942
Request == compose_esb_fragment(compose_set_time_payload(SetTimeStamp),
                                <<21>>, <<128, 11>>, DtuSer, InverterSer).v

compose_esb_packet(packet, mtu, maincmd, subcmd, src, dst) ==
    \* the fragments the generator gives, one per step of range(0, len, mtu);
    \* a fragment that raises ends the generator
    [k \in 1..((Len(packet) + mtu - 1) \div mtu) |->
        compose_esb_fragment(Slice(packet, (k - 1) * mtu, k * mtu),
                             maincmd, subcmd, src, dst)]

(***************************************************************************)
(* ESBFrame: an object is the record of its attributes.  __init__ reads    *)
(* payload, source and target from its parameters and no preamble, so the  *)
(* attribute preamble is the class's 0x15.                                 *)
(***************************************************************************)
l_addr == 4

ESBFrame(preamble, source, target, payload) ==
    IF Len(source) # l_addr \/ Len(target) # l_addr
    THEN [raised |-> "ValueError", preamble |-> <<>>, target |-> <<>>,
          source |-> <<>>, payload |-> <<>>]
    ELSE [raised |-> "", preamble |-> <<21>>, target |-> target,
          source |-> source, payload |-> payload]

frombytes(data) ==
    LET o_target == 1 + l_addr
        o_data == o_target + l_addr
    IN ESBFrame(Slice(data, 0, 1), Slice(data, o_target, o_data),
                Slice(data, 1, o_target),
                DropLast(Slice(data, o_data, Len(data)), 1))

ESBFrame_packet(self) == self.preamble \o self.target \o self.source \o self.payload

ESBFrame_crc(self) == <<f_crc8(ESBFrame_packet(self))>>

ESBFrame_bytes(self) == ESBFrame_packet(self) \o ESBFrame_crc(self)

(***************************************************************************)
(* RequestFactory                                                          *)
(***************************************************************************)
mtu16 == 16

\* mutant of iter: no fragment is marked as the last
iter_unmarked(self) ==
    LET l_payload == Len(self.payload)
        turns == (l_payload + mtu16 - 1) \div mtu16
        n_frame(k) == k
        bad == {k \in 1..turns : n_frame(k) > 255}
        given == IF bad = {} THEN turns
                 ELSE (CHOOSE k \in bad : \A j \in bad : k <= j) - 1
    IN [raised |-> IF bad = {} THEN "" ELSE "StructError",
        v |-> [k \in 1..given |->
                 ESBFrame(self.maincmd, self.source, self.target,
                          <<n_frame(k)>> \o Slice(self.payload, (k - 1) * mtu16,
                                                  k * mtu16))]]

\* __iter__: turn k of the loop has i_base = (k - 1) * mtu and n_frame = k,
\* plus 0x80 in the turn whose chunk reaches the end of the payload, which
\* is the last; the generator gives the frames of the turns before the
\* first whose struct.pack('>B', n_frame) is out of range ("StructError")
iter(self) ==
    LET l_payload == Len(self.payload)
        turns == (l_payload + mtu16 - 1) \div mtu16
        n_frame(k) == IF (k - 1) * mtu16 + mtu16 >= l_payload
                      THEN k + 128 ELSE k
        bad == {k \in 1..turns : n_frame(k) > 255}
        given == IF bad = {} THEN turns
                 ELSE (CHOOSE k \in bad : \A j \in bad : k <= j) - 1
    IN [raised |-> IF bad = {} THEN "" ELSE "StructError",
        v |-> [k \in 1..given |->
                 ESBFrame(self.maincmd, self.source, self.target,
                          <<n_frame(k)>> \o Slice(self.payload, (k - 1) * mtu16,
                                                  k * mtu16))]]

\* RequestFactory(payload, dtu_ser=..., inverter_ser=...).__iter__(), with
\* "payload" the logical payload followed by the property crc
RequestFactory(payload, dtu_ser, inverter_ser) ==
    iter([payload |-> payload \o pack_H(f_crc_m(payload)),
          maincmd |-> <<21>>,
          source |-> ser_to_hm_addr(dtu_ser).v,
          target |-> ser_to_hm_addr(inverter_ser).v])

(***************************************************************************)
(* Frames the radio can deliver: replies of the inverter (preamble 0x95,   *)
(* both address fields the sender's, as in the log of test.py), one reply  *)
(* of another inverter and one frame damaged on the air.                   *)
(***************************************************************************)
InvAddr == ser_to_hm_addr(InverterSer).v
OtherAddr == <<114, 34, 1, 68>>

Reply(addr, seq, data) ==
    LET packet == <<149>> \o addr \o addr \o <<seq>> \o data
    IN packet \o <<f_crc8(packet)>>

Data1 == <<1>>
Data2 == <<2>>
Data3 == pack_H(f_crc_m(Data1 \o Data2))
DataSingle == frame_payload(<<11>>)

Frag1 == Reply(InvAddr, 1, Data1)
Frag2 == Reply(InvAddr, 2, Data2)
FragEnd3 == Reply(InvAddr, 131, Data3)
FragEnd1 == Reply(InvAddr, 129, DataSingle)
Frag1Alt == Reply(InvAddr, 1, <<3>>)
FragOther == Reply(OtherAddr, 129, DataSingle)
Frag7F == Reply(InvAddr, 127, <<4>>)
\* FragEnd1 with its last byte toggled
FragBad == DropLast(FragEnd1, 1) \o <<Xor(FragEnd1[Len(FragEnd1)], 255)>>

RxFrames == {Frag1, Frag2, FragEnd3, FragEnd1, Frag1Alt, FragOther, Frag7F, FragBad}

\* replies with the sequence bytes 1, 3 and 0x82 (the terminal announcing two
\* fragments, with the CRC-16 of the first one's data), one with 0x80, and
\* the one with 0x7F
Frag3 == Reply(InvAddr, 3, <<5>>)
FragEnd2 == Reply(InvAddr, 130, pack_H(f_crc_m(Data1)))
Frag80 == Reply(InvAddr, 128, DataSingle)
SeqFrames == {Frag1, Frag3, FragEnd2, Frag80, Frag7F}

\* mutant of InverterPacketFragment: the constructor never raises
InverterPacketFragment_lenient == [payload \in RxFrames \cup SeqFrames |-> TRUE]

\* InverterPacketFragment(payload=...) on each deliverable frame:
\* TRUE when the constructor returns, FALSE when it raises BufferError
InverterPacketFragment ==
    [payload \in RxFrames \cup SeqFrames |-> crc8_ok(payload)]

(***************************************************************************)
(* State                                                                   *)
(***************************************************************************)
VARIABLES
    tx_queue,        \* InverterTransaction.tx_queue, the class attribute
    txn,             \* the InverterTransaction objects, by number
    rx_channel_id,   \* HoymilesNRF.rx_channel_id
    rx_channel_ack,  \* HoymilesNRF.rx_channel_ack
    rx_error,        \* HoymilesNRF.rx_error
    rx,              \* the rxtx() call in progress: its transaction, its
                     \* local "wait", the ticks left until t_end and, as
                     \* history, the length of its scratch when it began
    tx_tags,         \* history: who enqueued each queued packet, and when
    n_sent,          \* history: the number of packets handed to radio.transmit
    last,            \* the last call that returned or raised, with its outcome
    codec,            \* a call of a composer or codec function: the function,
                     \* its argument and, once it has run, what it gave
    nrf              \* HoymilesNRF.radio, the RF24 device: its registers now, and
                     \* as they were when the last packet was written

vars == <<tx_queue, txn, rx_channel_id, rx_channel_ack, rx_error, rx,
          tx_tags, n_sent, last, codec, nrf>>

Txns == 1..MaxTxn

rx_channel_list == <<3, 23, 40, 61, 75>>
tx_channel_list == <<40>>

(***************************************************************************)
(* The RF24 device, as far as transmit and receive configure it            *)
(***************************************************************************)
\* after RF24.begin(): listening, no register written yet
PowerOn ==
    [listening |-> TRUE, channel |-> 0, auto_ack |-> FALSE, retries |-> <<0, 0>>,
     crc_length |-> 0, dynamic_payloads |-> FALSE, data_rate |-> 0]

\* transmit(): the registers when radio.write(packet) is called
transmit(reg) ==
    [reg EXCEPT !.listening = FALSE, !.data_rate = 250,
                !.channel = tx_channel_list[1], !.auto_ack = TRUE,
                !.retries = <<3, 15>>, !.crc_length = 16,
                !.dynamic_payloads = TRUE]

\* receive(): the registers when the loop is entered
start_listening(reg, rx_channel) ==
    [reg EXCEPT !.channel = rx_channel, !.auto_ack = FALSE,
                !.retries = <<0, 0>>, !.dynamic_payloads = TRUE,
                !.crc_length = 16, !.listening = TRUE]

\* mutant of retune: the hop does not reach the radio
retune_stays(reg, rx_channel) ==
    [reg EXCEPT !.listening = TRUE]

\* receive(): stopListening, setChannel, startListening after a hop
retune(reg, rx_channel) ==
    [reg EXCEPT !.listening = TRUE, !.channel = rx_channel]

NoTxn == [made |-> FALSE, radio |-> FALSE,
          inverter_ser |-> NoSer, inverter_addr |-> NoneVal,
          dtu_ser |-> NoSer, dtu_addr |-> NoneVal,
          req_type |-> NoneVal, request |-> <<>>, scratch |-> <<>>]

Idle == [t |-> 0, wait |-> FALSE, left |-> 0, base |-> 0]

NoResult == [kind |-> "", why |-> "", cmd |-> 0, payload |-> <<>>, frame_id |-> 0]
NoTag == [by |-> 0, n |-> 0]

\* "v" is the list of byte strings the function gave, "raised" its exception
Call(fn, arg) == [fn |-> fn, arg |-> arg, done |-> FALSE, raised |-> "", v |-> <<>>]
NoCall == Call("", <<>>)

\* "tag" is the history tag of the packet a transmit step popped
Outcome(op, t, src, res) ==
    [op |-> op, t |-> t, src |-> src, kind |-> res.kind, why |-> res.why,
     cmd |-> res.cmd, payload |-> res.payload, frame_id |-> res.frame_id,
     tag |-> NoTag]

Raise(kind, why, frame_id) ==
    [kind |-> kind, why |-> why, cmd |-> 0, payload |-> <<>>, frame_id |-> frame_id]

Enqueued == n_sent + Len(tx_queue)

RxTotal == LET RECURSIVE Sum(_)
               Sum(t) == IF t = 0 THEN 0 ELSE Len(txn[t].scratch) + Sum(t - 1)
           IN Sum(MaxTxn)

Init ==
    /\ tx_queue = <<>>
    /\ txn = [t \in Txns |-> NoTxn]
    /\ rx_channel_id = 0
    /\ rx_channel_ack = FALSE
    /\ rx_error = 0
    /\ rx = Idle
    /\ tx_tags = <<>>
    /\ n_sent = 0
    /\ last = Outcome("", 0, NoneVal, NoResult)
    /\ codec = NoCall
    /\ nrf = [reg |-> PowerOn, sent |-> PowerOn]

(***************************************************************************)
(* InverterTransaction                                                     *)
(***************************************************************************)
queue_tx(self, frame) ==
    \* the packets appended to tx_queue
    IF ~self.radio THEN <<>> ELSE <<frame>>

\* mutant of retransmit_frame: the request names the following frame
retransmit_frame_next(self, frame_id) ==
    IF ~self.radio THEN [raised |-> "", enq |-> <<>>]
    ELSE IF 128 + frame_id > 255 THEN [raised |-> "OverflowError", enq |-> <<>>]
    ELSE LET packet == compose_esb_fragment(<<>>, <<21>>, <<128 + frame_id + 1>>,
                                            self.dtu_ser, self.inverter_ser)
         IN IF packet.raised # ""
            THEN [raised |-> packet.raised, enq |-> <<>>]
            ELSE [raised |-> "", enq |-> queue_tx(self, packet.v)]

\* mutant of retransmit_frame: the opcode byte is (0x80 + frame_id) % 256
retransmit_frame_wraps(self, frame_id) ==
    IF ~self.radio THEN [raised |-> "", enq |-> <<>>]
    ELSE LET packet == compose_esb_fragment(<<>>, <<21>>, <<(128 + frame_id) % 256>>,
                                            self.dtu_ser, self.inverter_ser)
         IN IF packet.raised # ""
            THEN [raised |-> packet.raised, enq |-> <<>>]
            ELSE [raised |-> "", enq |-> queue_tx(self, packet.v)]

retransmit_frame(self, frame_id) ==
    \* raised: "" when the helper returns
    IF ~self.radio THEN [raised |-> "", enq |-> <<>>]
    ELSE IF 128 + frame_id > 255 THEN [raised |-> "OverflowError", enq |-> <<>>]
    ELSE LET packet == compose_esb_fragment(<<>>, <<21>>, <<128 + frame_id>>,
                                            self.dtu_ser, self.inverter_ser)
         IN IF packet.raised # ""
            THEN [raised |-> packet.raised, enq |-> <<>>]
            ELSE [raised |-> "", enq |-> queue_tx(self, packet.v)]

\* mutant of SeqMax: the number of fragments from src
SeqMax_count(frames) == Len(frames)

\* mutant of SeqMax: the seq of the fragment that arrived last
SeqMax_latest(frames) == frag_seq(frames[Len(frames)])

SeqMax(frames) ==
    LET seqs == {frag_seq(frames[i]) : i \in 1..Len(frames)}
    IN CHOOSE m \in seqs : \A n \in seqs : n <= m

\* mutant of rebuild: each chunk is put in front of the payload so far
RECURSIVE rebuild_prepend(_, _, _, _)
rebuild_prepend(frames, frame_id, tr_len, payload) ==
    IF frame_id >= tr_len THEN [missing |-> 0, payload |-> payload]
    ELSE LET items == SelectSeq(frames, LAMBDA item : frag_seq(item) = frame_id)
         IN IF items = <<>>
            THEN [missing |-> frame_id, payload |-> payload]
            ELSE rebuild_prepend(frames, frame_id + 1, tr_len,
                                 frag_data(Head(items)) \o payload)

\* mutant of rebuild: the loop "for frame_id in range(1, tr_len + 2)" also
\* looks for the fragments numbered tr_len and tr_len + 1
RECURSIVE rebuild_beyond(_, _, _, _)
rebuild_beyond(frames, frame_id, tr_len, payload) ==
    IF frame_id >= tr_len + 2 THEN [missing |-> 0, payload |-> payload]
    ELSE LET items == SelectSeq(frames, LAMBDA item : frag_seq(item) = frame_id)
         IN IF items = <<>>
            THEN IF frame_id >= tr_len
                 THEN rebuild_beyond(frames, frame_id + 1, tr_len, payload)
                 ELSE [missing |-> frame_id, payload |-> payload]
            ELSE rebuild_beyond(frames, frame_id + 1, tr_len,
                                payload \o frag_data(Head(items)))

\* mutant of rebuild: the loop goes on after a missing fragment, and the
\* last one it missed is reported
RECURSIVE rebuild_highest(_, _, _, _)
rebuild_highest(frames, frame_id, tr_len, payload) ==
    IF frame_id >= tr_len THEN [missing |-> 0, payload |-> payload]
    ELSE LET items == SelectSeq(frames, LAMBDA item : frag_seq(item) = frame_id)
             rest == rebuild_highest(frames, frame_id + 1, tr_len,
                                     IF items = <<>> THEN payload
                                     ELSE payload \o frag_data(Head(items)))
         IN IF items = <<>> /\ rest.missing = 0
            THEN [missing |-> frame_id, payload |-> payload]
            ELSE rest

RECURSIVE rebuild(_, _, _, _)
rebuild(frames, frame_id, tr_len, payload) ==
    \* the loop "for frame_id in range(1, tr_len)"
    IF frame_id >= tr_len THEN [missing |-> 0, payload |-> payload]
    ELSE LET items == SelectSeq(frames, LAMBDA item : frag_seq(item) = frame_id)
         IN IF items = <<>>
            THEN [missing |-> frame_id, payload |-> payload]
            ELSE rebuild(frames, frame_id + 1, tr_len,
                         payload \o frag_data(Head(items)))

MissingFragment(self, frame_id) ==
    \* __retransmit_frame(frame_id), then raise BufferError
    LET r == retransmit_frame(self, frame_id)
    IN IF r.raised # ""
       THEN [res |-> Raise(r.raised, "retransmit", frame_id), enq |-> <<>>]
       ELSE [res |-> Raise("BufferError", "missing", frame_id), enq |-> r.enq]

\* mutant of crc_check: the trailer is not compared
crc_check_skipped(payload) == Len(payload) >= 0

crc_check(payload) == f_crc_m(DropLast(payload, 2)) = unpack_be(TakeLast(payload, 2))

\* mutant of get_payload: a fragment with seq 0x80 is an end frame too
get_payload_bit7(self, src_arg) ==
    LET src == IF src_arg.t = "none" THEN self.inverter_addr ELSE src_arg
        frames == SelectSeq(self.scratch,
                            LAMBDA frame : PyEq(IntVal(frag_src(frame)), src))
        ends == SelectSeq(frames, LAMBDA frame : frag_seq(frame) >= 128)
    IN IF ends = <<>>
       THEN IF frames = <<>>
            THEN [res |-> Raise("ValueError", "max", 0), enq |-> <<>>]
            ELSE MissingFragment(self, SeqMax(frames) + 1)
       ELSE LET end_frame == Head(ends)
                tr_len == frag_seq(end_frame) - 128
                body == rebuild(frames, 1, tr_len, <<>>)
                payload == body.payload \o frag_data(end_frame)
            IN IF body.missing # 0
               THEN MissingFragment(self, body.missing)
               ELSE IF Len(payload) < 2
               THEN [res |-> Raise("StructError", "unpack", 0), enq |-> <<>>]
               ELSE IF ~crc_check(payload)
               THEN [res |-> Raise("ValueError", "crc", 0), enq |-> <<>>]
               ELSE [res |-> [kind |-> "ok", why |-> "", cmd |-> main_cmd(end_frame),
                              payload |-> payload, frame_id |-> 0],
                     enq |-> <<>>]

get_payload(self, src_arg) ==
    LET src == IF src_arg.t = "none" THEN self.inverter_addr ELSE src_arg
        frames == SelectSeq(self.scratch,
                            LAMBDA frame : PyEq(IntVal(frag_src(frame)), src))
        ends == SelectSeq(frames, LAMBDA frame : frag_seq(frame) > 128)
    IN IF ends = <<>>
       THEN IF frames = <<>>
            THEN [res |-> Raise("ValueError", "max", 0), enq |-> <<>>]
            ELSE MissingFragment(self, SeqMax(frames) + 1)
       ELSE LET end_frame == Head(ends)
                tr_len == frag_seq(end_frame) - 128
                body == rebuild(frames, 1, tr_len, <<>>)
                payload == body.payload \o frag_data(end_frame)
            IN IF body.missing # 0
               THEN MissingFragment(self, body.missing)
               ELSE IF Len(payload) < 2
               THEN [res |-> Raise("StructError", "unpack", 0), enq |-> <<>>]
               ELSE IF ~crc_check(payload)
               THEN [res |-> Raise("ValueError", "crc", 0), enq |-> <<>>]
               ELSE [res |-> [kind |-> "ok", why |-> "", cmd |-> main_cmd(end_frame),
                              payload |-> payload, frame_id |-> 0],
                     enq |-> <<>>]

frame_append(self, frame) == [self EXCEPT !.scratch = Append(@, frame)]

Tags(t, pkts) == [i \in 1..Len(pkts) |-> [by |-> t, n |-> Enqueued + i]]

(***************************************************************************)
(* Operations                                                              *)
(***************************************************************************)
\* InverterTransaction(radio=..., inverter_ser=..., dtu_ser=..., request=...)
NewTransaction(t, radio, inverter_ser, dtu_ser, request) ==
    /\ rx.t = 0
    /\ ~txn[t].made
    /\ \A u \in 1..(t - 1) : txn[u].made
    /\ Enqueued < MaxEnq
    /\ LET s0 == [NoTxn EXCEPT
                    !.made = TRUE,
                    !.radio = radio,
                    !.inverter_ser = inverter_ser,
                    !.inverter_addr = IF inverter_ser # NoSer
                                      THEN BytesVal(ser_to_hm_addr(inverter_ser).v)
                                      ELSE NoneVal,
                    !.dtu_ser = dtu_ser,
                    !.dtu_addr = IF dtu_ser # NoSer
                                 THEN BytesVal(ser_to_hm_addr(dtu_ser).v)
                                 ELSE NoneVal]
           enq == IF request = <<>> THEN <<>> ELSE queue_tx(s0, request)
           self == IF request = <<>> THEN s0
                   ELSE [s0 EXCEPT
                           !.request = request,
                           !.inverter_addr = IntVal(unpack_be(Slice(request, 1, 5))),
                           !.dtu_addr = IntVal(unpack_be(Slice(request, 5, 9))),
                           !.req_type = IntVal(request[11])]
       IN /\ txn' = [txn EXCEPT ![t] = self]
          /\ tx_queue' = tx_queue \o enq
          /\ tx_tags' = tx_tags \o Tags(t, enq)
    /\ last' = Outcome("new", t, NoneVal, NoResult)
    /\ UNCHANGED <<codec, rx_channel_id, rx_channel_ack, rx_error, rx, n_sent, nrf>>

\* the replay loop of test.py: parse a logged frame, append it when it parses
LogReplay(t, payload) ==
    /\ rx.t = 0
    /\ txn[t].made
    /\ RxTotal < MaxRx
    /\ IF InverterPacketFragment[payload]
       THEN /\ txn' = [txn EXCEPT ![t] = frame_append(@, payload)]
            /\ last' = Outcome("frame_append", t, NoneVal, NoResult)
       ELSE /\ txn' = txn
            /\ last' = Outcome("parse", t, NoneVal, Raise("BufferError", "crc8", 0))
    /\ UNCHANGED <<codec, tx_queue, rx_channel_id, rx_channel_ack, rx_error, rx,
                   tx_tags, n_sent, nrf>>

\* mutant of GetPayload: a request that is already queued is not queued again
GetPayload_dedup(t, src_arg) ==
    /\ rx.t = 0
    /\ txn[t].made
    /\ LET r == get_payload(txn[t], src_arg)
           enq == IF \E i \in 1..Len(tx_queue) : <<tx_queue[i]>> = r.enq
                  THEN <<>> ELSE r.enq
       IN /\ enq # <<>> => Enqueued < MaxEnq
          /\ tx_queue' = tx_queue \o enq
          /\ tx_tags' = tx_tags \o Tags(t, enq)
          /\ last' = Outcome("get_payload", t, src_arg, r.res)
    /\ UNCHANGED <<codec, txn, rx_channel_id, rx_channel_ack, rx_error, rx, n_sent, nrf>>

\* mutant of GetPayload: a successful extraction empties the scratch
GetPayload_consumes(t, src_arg) ==
    /\ rx.t = 0
    /\ txn[t].made
    /\ LET r == get_payload(txn[t], src_arg)
       IN /\ r.enq # <<>> => Enqueued < MaxEnq
          /\ tx_queue' = tx_queue \o r.enq
          /\ tx_tags' = tx_tags \o Tags(t, r.enq)
          /\ last' = Outcome("get_payload", t, src_arg, r.res)
          /\ txn' = IF r.res.kind = "ok" THEN [txn EXCEPT ![t].scratch = <<>>]
                    ELSE txn
    /\ UNCHANGED <<codec, rx_channel_id, rx_channel_ack, rx_error, rx, n_sent, nrf>>

GetPayload(t, src_arg) ==
    /\ rx.t = 0
    /\ txn[t].made
    /\ LET r == get_payload(txn[t], src_arg)
       IN /\ r.enq # <<>> => Enqueued < MaxEnq
          /\ tx_queue' = tx_queue \o r.enq
          /\ tx_tags' = tx_tags \o Tags(t, r.enq)
          /\ last' = Outcome("get_payload", t, src_arg, r.res)
    /\ UNCHANGED <<codec, txn, rx_channel_id, rx_channel_ack, rx_error, rx, n_sent, nrf>>

\* mutant of has_work: the radio is not looked at
has_work_queue_only(self, queue) == Len(queue) # 0

\* mutant of pop: tx_queue.pop()
pop_last(queue) ==
    [packet |-> queue[Len(queue)], rest |-> DropLast(queue, 1), at |-> Len(queue)]

\* rxtx(): the two early returns are not taken
has_work(self, queue) == self.radio /\ Len(queue) # 0

\* mutant of pop: tx_queue[0], the packet stays queued
pop_peek(queue) == [packet |-> Head(queue), rest |-> queue, at |-> 1]

\* tx_queue.pop(0)
pop(queue) == [packet |-> Head(queue), rest |-> Tail(queue), at |-> 1]

\* rxtx() with no radio or an empty queue
RxtxNoWork(t) ==
    /\ rx.t = 0
    /\ txn[t].made
    /\ ~has_work(txn[t], tx_queue)
    /\ last' = Outcome("rxtx", t, NoneVal, Raise("False", "nowork", 0))
    /\ UNCHANGED <<codec, tx_queue, txn, rx_channel_id, rx_channel_ack, rx_error, rx,
                   tx_tags, n_sent, nrf>>

\* rxtx(): pop the head, radio.transmit, enter radio.receive
RxtxTransmit(t) ==
    /\ rx.t = 0
    /\ txn[t].made
    /\ has_work(txn[t], tx_queue)
    /\ LET p == pop(tx_queue)
           tag == tx_tags[p.at]
       IN /\ tx_queue' = p.rest
          /\ tx_tags' = [i \in 1..(Len(tx_tags) - 1) |->
                           IF i < p.at THEN tx_tags[i] ELSE tx_tags[i + 1]]
          /\ n_sent' = n_sent + 1
          /\ last' = [Outcome("transmit", t, NoneVal, NoResult) EXCEPT
                        !.payload = p.packet, !.tag = tag]
    /\ rx' = [t |-> t, wait |-> FALSE, left |-> TimeoutTicks,
              base |-> Len(txn[t].scratch)]
    /\ LET sent == transmit(nrf.reg)
       IN nrf' = [reg |-> start_listening(sent, rx_channel_list[rx_channel_id + 1]),
                  sent |-> sent]
    /\ UNCHANGED <<codec, txn, rx_channel_id, rx_channel_ack, rx_error>>

\* mutant of next_rx_channel: the ack is not looked at
next_rx_channel_always(id, ack) ==
    IF id + 1 >= Len(rx_channel_list) THEN 0 ELSE id + 1

\* mutant of next_rx_channel: every other entry of the hop list
next_rx_channel_skip(id, ack) ==
    IF ~ack THEN (id + 2) % Len(rx_channel_list) ELSE id

next_rx_channel(id, ack) ==
    IF ~ack
    THEN IF id + 1 >= Len(rx_channel_list) THEN 0 ELSE id + 1
    ELSE id

\* mutant of PollFrame: a fragment leaves the deadline as it is
PollFrame_keeps_deadline(payload) ==
    /\ rx.t # 0
    /\ rx.left > 0
    /\ RxTotal < MaxPolled
    /\ rx_error' = 0
    /\ rx_channel_ack' = TRUE
    /\ IF InverterPacketFragment[payload]
       THEN /\ txn' = [txn EXCEPT ![rx.t] = frame_append(@, payload)]
            /\ rx' = [rx EXCEPT !.wait = TRUE]
            /\ last' = Outcome("receive", rx.t, NoneVal, NoResult)
       ELSE /\ txn' = txn
            /\ rx' = Idle
            /\ last' = Outcome("rxtx", rx.t, NoneVal, Raise("BufferError", "crc8", 0))
    /\ UNCHANGED <<codec, tx_queue, rx_channel_id, tx_tags, n_sent, nrf>>

\* receive(): one turn of the loop with a payload in the radio's buffer
PollFrame(payload) ==
    /\ rx.t # 0
    /\ rx.left > 0
    /\ RxTotal < MaxPolled
    /\ rx_error' = 0
    /\ rx_channel_ack' = TRUE
    /\ IF InverterPacketFragment[payload]
       THEN /\ txn' = [txn EXCEPT ![rx.t] = frame_append(@, payload)]
            /\ rx' = [rx EXCEPT !.wait = TRUE, !.left = FragTicks - 1]
            /\ last' = Outcome("receive", rx.t, NoneVal, NoResult)
       ELSE \* BufferError leaves the generator and rxtx()
            /\ txn' = txn
            /\ rx' = Idle
            /\ last' = Outcome("rxtx", rx.t, NoneVal, Raise("BufferError", "crc8", 0))
    /\ UNCHANGED <<codec, tx_queue, rx_channel_id, tx_tags, n_sent, nrf>>

\* mutant of PollEmpty: the ack is cleared on the first empty poll
PollEmpty_clears_at_once ==
    /\ rx.t # 0
    /\ rx.left > 0
    /\ rx_error < MaxRxError
    /\ rx_error' = rx_error + 1
    /\ rx_channel_ack' = FALSE
    /\ rx_channel_id' = next_rx_channel(rx_channel_id, rx_channel_ack')
    /\ nrf' = IF ~rx_channel_ack'
              THEN [nrf EXCEPT !.reg = retune(@, rx_channel_list[rx_channel_id' + 1])]
              ELSE nrf
    /\ rx' = [rx EXCEPT !.left = @ - 1]
    /\ last' = Outcome("poll", rx.t, NoneVal, NoResult)
    /\ UNCHANGED <<codec, tx_queue, txn, tx_tags, n_sent>>

\* receive(): one turn of the loop with nothing in the radio's buffer
PollEmpty ==
    /\ rx.t # 0
    /\ rx.left > 0
    /\ rx_error < MaxRxError
    /\ rx_error' = rx_error + 1
    /\ rx_channel_ack' = IF rx_error + 1 > 1 THEN FALSE ELSE rx_channel_ack
    /\ rx_channel_id' = next_rx_channel(rx_channel_id, rx_channel_ack')
    /\ nrf' = IF ~rx_channel_ack'
              THEN [nrf EXCEPT !.reg = retune(@, rx_channel_list[rx_channel_id' + 1])]
              ELSE nrf
    /\ rx' = [rx EXCEPT !.left = @ - 1]
    /\ last' = Outcome("poll", rx.t, NoneVal, NoResult)
    /\ UNCHANGED <<codec, tx_queue, txn, tx_tags, n_sent>>

\* receive() is exhausted at the deadline and rxtx() returns "wait"
RxtxReturn ==
    /\ rx.t # 0
    /\ rx.left = 0
    /\ rx' = Idle
    /\ last' = Outcome("rxtx", rx.t, NoneVal,
                       Raise(IF rx.wait THEN "True" ELSE "False", "", 0))
    /\ UNCHANGED <<codec, tx_queue, txn, rx_channel_id, rx_channel_ack, rx_error,
                   tx_tags, n_sent, nrf>>

SrcArgs == {NoneVal, IntVal(unpack_be(OtherAddr))}

\* the ways the front ends construct a transaction: scan.py (radio, both
\* serials, request), test.py (no radio, inverter serial, request), from
\* the request bytes alone, and from the serials alone
Config(radio, inverter_ser, dtu_ser, request) ==
    [radio |-> radio, inverter_ser |-> inverter_ser, dtu_ser |-> dtu_ser,
     request |-> request]

ReplayConfig == Config(FALSE, InverterSer, NoSer, Request)
ScanConfig == Config(TRUE, InverterSer, DtuSer, Request)

Configs == <<ReplayConfig, ScanConfig,
             Config(TRUE, NoSer, NoSer, Request),
             Config(TRUE, InverterSer, DtuSer, <<>>)>>

Construct(ts, cfgs) ==
    \E t \in ts, k \in 1..Len(cfgs) :
        NewTransaction(t, cfgs[k].radio, cfgs[k].inverter_ser, cfgs[k].dtu_ser,
                       cfgs[k].request)

Reassemble(ts, srcs) == \E t \in ts, src_arg \in srcs : GetPayload(t, src_arg)

\* the offline front end (test.py): one transaction fed from a log
Next ==
    \/ Construct({1}, Configs)
    \/ \E payload \in RxFrames : LogReplay(1, payload)
    \/ Reassemble({1}, SrcArgs)

Spec == Init /\ [][Next]_vars

\* the offline front end fed with replies that differ in their sequence
\* bytes
\* a serial of another inverter, whose address is OtherAddr
OtherSer == <<1, 1, 4, 1, 7, 2, 2, 2, 0, 1, 4, 4>>

\* test.py and scan.py, a transaction made from the request bytes alone,
\* and one made with the serial of another inverter than the request's
SeqConfigs == <<ReplayConfig, ScanConfig,
                Config(TRUE, NoSer, NoSer, Request),
                Config(TRUE, OtherSer, DtuSer, Request)>>

NextSeq ==
    \/ Construct({1}, SeqConfigs)
    \/ \E payload \in SeqFrames : LogReplay(1, payload)
    \/ Reassemble({1}, {NoneVal})

SpecSeq == Init /\ [][NextSeq]_vars

\* the radio front end (scan.py): transactions made one after the other
\* and driven by rxtx() on the shared radio
RadioFrames == {FragEnd3, FragBad}

NextRadio ==
    \/ Construct(Txns, <<ScanConfig, ReplayConfig>>)
    \/ Reassemble(Txns, {NoneVal})
    \/ \E t \in Txns : RxtxNoWork(t)
    \/ \E t \in Txns : RxtxTransmit(t)
    \/ \E payload \in RadioFrames : PollFrame(payload)
    \/ PollEmpty
    \/ RxtxReturn

SpecRadio == Init /\ [][NextRadio]_vars

(***************************************************************************)
(* One rxtx() call of a transaction of scan.py on the radio, with the loop *)
(* of receive always taking its next turn: time.sleep returns and the      *)
(* monotonic clock advances, so a turn that finds no payload is taken      *)
(* while the deadline has not passed, and the call returns once it has.    *)
(***************************************************************************)
NextReceive ==
    \/ Construct({1}, <<ScanConfig>>)
    \/ RxtxNoWork(1)
    \/ RxtxTransmit(1)
    \/ \E payload \in RxFrames : PollFrame(payload)
    \/ PollEmpty
    \/ RxtxReturn

SpecReceive ==
    Init /\ [][NextReceive]_vars /\ WF_vars(PollEmpty) /\ WF_vars(RxtxReturn)

(***************************************************************************)
(* The composer and the codecs, called on their own: the call starts with  *)
(* its argument and one step runs the function.  The fragments             *)
(* RequestFactory gives for a payload can then be parsed and appended to a *)
(* transaction's scratch, in any order, and reassembled.                   *)
(***************************************************************************)
\* longest logical payload and longest data chunk a run composes
MaxPayloadLen == 31
MaxChunk == 21

Pay(n) == [i \in 1..n |-> (7 * i + 3) % 256]

\* with its CRC-16: the longest payload __iter__ can number, and a longer one
LongPayloads == {Pay(16 * 127), Pay(16 * 127 + 1)}

\* payloads of the lengths around which the number of fragments changes
Payloads == {Pay(n) : n \in {k \in 0..MaxPayloadLen : k % 16 \in {0, 1, 13, 14, 15}}}
Chunks == {Pay(n) : n \in 0..MaxChunk}
Serials == {InverterSer, DtuSer, <<5>>, <<0, 0, 1, 2, 3, 4, 5, 6, 7>>,
            <<7, 9, 9, 9, 9, 9, 9, 9>>, <<4, 2, 0, 0, 0, 0, 0, 0, 0, 0>>}
OnAir == {Request, Frag1, FragEnd1, FragEnd3}

(***************************************************************************)
(* Decoder dispatch: ResponseDecoder picks the decoder class of a reply    *)
(* from the inverter serial and the command byte of the request.           *)
(***************************************************************************)
\* ResponseDecoderFactory.inverter_model: ser_db, in its order
ser_db ==
    <<[model |-> "Hm300", prefix |-> <<1, 1, 2, 1>>],
      [model |-> "Hm600", prefix |-> <<1, 1, 4, 1>>],
      [model |-> "Hm1200", prefix |-> <<1, 1, 6, 1>>]>>

\* re.match(r'^<prefix>........', ser_str): the prefix and eight more characters
re_match(prefix, ser_str) ==
    /\ Len(ser_str) >= Len(prefix) + 8
    /\ SubSeq(ser_str, 1, Len(prefix)) = prefix

\* the model name, or the exception: ValueError without a serial, TypeError
\* from len(model) when model is still None after the loop
inverter_model(inverter_ser) ==
    IF inverter_ser = NoSer
    THEN [raised |-> "ValueError", v |-> ""]
    ELSE LET hits == {k \in 1..Len(ser_db) : re_match(ser_db[k].prefix, inverter_ser)}
         IN IF hits = {}
            THEN [raised |-> "TypeError", v |-> ""]
            ELSE [raised |-> "",
                  v |-> ser_db[CHOOSE k \in hits : \A j \in hits : k <= j].model]

\* f'{self.request[10]:02x}': the two hexadecimal digits of the byte
request_command(request) ==
    LET r_code == request[11]
    IN <<r_code \div 16, r_code % 16>>

\* mutant of decoder_classes: with an events decoder for command 01
decoder_classes_with01 ==
    {[model |-> m, command |-> c,
      base |-> IF c = <<0, 11>> THEN "StatusResponse" ELSE "EventsResponse"] :
        m \in {"Hm300", "Hm600", "Hm1200"},
        c \in {<<0, 1>>, <<0, 2>>, <<0, 11>>, <<1, 1>>, <<1, 2>>}}

\* the classes named <model>Decode<COMMAND> of hoymiles.decoders, each with
\* its base class
decoder_classes ==
    {[model |-> m, command |-> c,
      base |-> IF c = <<0, 11>> THEN "StatusResponse" ELSE "EventsResponse"] :
        m \in {"Hm300", "Hm600", "Hm1200"},
        c \in {<<0, 2>>, <<0, 11>>, <<1, 1>>, <<1, 2>>}}

\* DebugDecodeAny(response): takes a valid CRC-8 and then a valid Modbus CRC
\* off the response
DebugDecodeAny(response) ==
    IF response = <<>>
    THEN [raised |-> "StructError", v |-> <<>>]
    ELSE LET r1 == IF f_crc8(DropLast(response, 1)) = response[Len(response)]
                   THEN DropLast(response, 1) ELSE response
         IN IF Len(r1) < 2
            THEN [raised |-> "StructError", v |-> <<>>]
            ELSE LET r2 == IF f_crc_m(DropLast(r1, 2)) = unpack_be(TakeLast(r1, 2))
                           THEN DropLast(r1, 2) ELSE r1
                 IN [raised |-> "",
                     v |-> <<[model |-> "", command |-> <<>>,
                              base |-> "UnknownResponse", name |-> "DebugDecodeAny",
                              response |-> r2]>>]

\* ResponseDecoder.decode, HOYMILES_DEBUG_LOGGING being debug: the decoder
\* object made, or the exception (device is unbound when no class is found
\* and debug is off)
decode(self, debug) ==
    LET model == inverter_model(self.inverter_ser)
    IN IF model.raised # ""
       THEN [raised |-> model.raised, v |-> <<>>]
       ELSE IF Len(self.request) < 11
       THEN [raised |-> "IndexError", v |-> <<>>]
       ELSE LET command == request_command(self.request)
                found == {c \in decoder_classes :
                             c.model = model.v /\ c.command = command}
            IN IF found # {}
               THEN LET c == CHOOSE d \in found : TRUE
                    IN [raised |-> "",
                        v |-> <<[model |-> c.model, command |-> c.command,
                                 base |-> c.base, name |-> "",
                                 response |-> self.response]>>]
               ELSE IF debug
               THEN DebugDecodeAny(self.response)
               ELSE [raised |-> "UnboundLocalError", v |-> <<>>]

(***************************************************************************)
(* Status decoders: every property unpacks one big-endian number at a      *)
(* fixed base of the response and divides it.                              *)
(***************************************************************************)
Field(prop, size, base, div) ==
    [prop |-> prop, size |-> size, base |-> base, div |-> div]

\* StatusResponse.unpack(fmt, base)[0]
unpack(size, base, response) ==
    LET bs == Slice(response, base, base + size)
    IN IF Len(bs) # size
       THEN [raised |-> "StructError", v |-> 0]
       ELSE [raised |-> "", v |-> unpack_be(bs)]

\* Hm300Decode0B: 1121-series status data, each property with the size and base of its
\* unpack and its divisor (1 where the value is not divided)
Hm300Decode0B ==
    <<Field("dc_voltage_0", 2, 2, 10),
      Field("dc_current_0", 2, 4, 100),
      Field("dc_power_0", 2, 6, 10),
      Field("dc_energy_total_0", 4, 8, 1),
      Field("dc_energy_daily_0", 2, 12, 1),
      Field("ac_voltage_0", 2, 14, 10),
      Field("ac_current_0", 2, 22, 100),
      Field("ac_power_0", 2, 18, 10),
      Field("frequency", 2, 16, 100),
      Field("temperature", 2, 26, 10)>>

\* Hm600Decode0B: 1141-series status data, each property with the size and base of its
\* unpack and its divisor (1 where the value is not divided)
Hm600Decode0B ==
    <<Field("dc_voltage_0", 2, 2, 10),
      Field("dc_current_0", 2, 4, 100),
      Field("dc_power_0", 2, 6, 10),
      Field("dc_energy_total_0", 4, 14, 1),
      Field("dc_energy_daily_0", 2, 22, 1),
      Field("dc_voltage_1", 2, 8, 10),
      Field("dc_current_1", 2, 10, 100),
      Field("dc_power_1", 2, 12, 10),
      Field("dc_energy_total_1", 4, 18, 1),
      Field("dc_energy_daily_1", 2, 24, 1),
      Field("ac_voltage_0", 2, 26, 10),
      Field("ac_current_0", 2, 34, 10),
      Field("ac_power_0", 2, 30, 10),
      Field("frequency", 2, 28, 100),
      Field("powerfactor", 2, 36, 1000),
      Field("temperature", 2, 38, 10),
      Field("event_count", 2, 40, 1)>>

\* Hm1200Decode0B: 1161-series status data, each property with the size and base of its
\* unpack and its divisor (1 where the value is not divided)
Hm1200Decode0B ==
    <<Field("dc_voltage_0", 2, 2, 10),
      Field("dc_current_0", 2, 4, 100),
      Field("dc_power_0", 2, 8, 10),
      Field("dc_energy_total_0", 4, 12, 1),
      Field("dc_energy_daily_0", 2, 20, 1),
      Field("dc_voltage_1", 2, 2, 10),
      Field("dc_current_1", 2, 6, 100),
      Field("dc_power_1", 2, 10, 10),
      Field("dc_energy_total_1", 4, 16, 1),
      Field("dc_energy_daily_1", 2, 22, 1),
      Field("dc_voltage_2", 2, 24, 10),
      Field("dc_current_2", 2, 26, 100),
      Field("dc_power_2", 2, 30, 10),
      Field("dc_energy_total_2", 4, 34, 1),
      Field("dc_energy_daily_2", 2, 42, 1),
      Field("dc_voltage_3", 2, 24, 10),
      Field("dc_current_3", 2, 28, 100),
      Field("dc_power_3", 2, 32, 10),
      Field("dc_energy_total_3", 4, 38, 1),
      Field("dc_energy_daily_3", 2, 44, 1),
      Field("ac_voltage_0", 2, 46, 10),
      Field("ac_current_0", 2, 54, 100),
      Field("ac_power_0", 2, 50, 10),
      Field("frequency", 2, 48, 100),
      Field("powerfactor", 2, 56, 1000),
      Field("temperature", 2, 58, 10),
      Field("event_count", 2, 60, 1)>>

StatusClasses ==
    [Hm300Decode0B |-> Hm300Decode0B, Hm600Decode0B |-> Hm600Decode0B,
     Hm1200Decode0B |-> Hm1200Decode0B]

\* getattr(decoder, prop) for every property of the class: the number
\* unpacked over the divisor
properties(cls, response) ==
    [k \in 1..Len(StatusClasses[cls]) |->
        LET f == StatusClasses[cls][k]
            u == unpack(f.size, f.base, response)
        IN [prop |-> f.prop, raised |-> u.raised, num |-> u.v, den |-> f.div]]

\* the HM600 status payload the three replies of the log reassemble to (with
\* its Modbus CRC), and a payload long
\* enough for every property of a 1161-series reply (whose four-byte numbers
\* stay below 2^31)
StatusHm600 ==
    <<0, 1, 1, 78, 0, 157, 2, 10, 1, 80, 0, 157, 2, 16, 0, 0>>
        \o <<136, 31, 0, 0, 127, 8, 0, 148, 0, 151, 8, 226, 19, 137, 3, 235>>
        \o <<0, 1, 0, 44, 3, 232, 0, 216, 0, 6, 12, 53>>
StatusLong == [i \in 1..62 |-> (5 * i + 1) % 128]
Responses == {StatusHm600, StatusLong}

\* serials of the three families, of an unknown family, two too short for
\* the pattern, and none
ModelSerials ==
    {<<1, 1, 2, 1>> \o TakeLast(InverterSer, 8), InverterSer,
     <<1, 1, 6, 1>> \o TakeLast(InverterSer, 8),
     <<1, 1, 4, 2>> \o TakeLast(InverterSer, 8),
     <<1, 1, 4, 1>> \o TakeLast(InverterSer, 7), DtuSer, NoSer}

\* the request of the log with another command byte
RequestFor(r_code) == [Request EXCEPT ![11] = r_code]
Commands == {1, 2, 11, 17, 18, 3}

\* the time of the log, and the first second of the epoch
Timestamps == {SetTimeStamp, 1}

Calls ==
    {Call("RequestFactory", p) : p \in Payloads}
        \cup {Call("iter", p) : p \in LongPayloads}
        \cup {Call("compose_esb_packet", p) : p \in Payloads}
        \cup {Call("compose_esb_fragment", c) : c \in Chunks}
        \cup {Call("frombytes", b) : b \in OnAir}
        \cup {Call("dst", payload) :
                 payload \in {f \in RxFrames \cup SeqFrames :
                                 InverterPacketFragment[f]}}
        \cup {Call("ser_to_esb_addr", ser) : ser \in Serials}
        \cup {Call("inverter_model", ser) : ser \in ModelSerials}
        \cup {Call("compose_set_time_payload", ts) : ts \in Timestamps}
        \cup {Call("decode", [inverter_ser |-> ser, request |-> RequestFor(c),
                              response |-> StatusHm600, debug |-> d]) :
                 ser \in {m \in ModelSerials : Len(m) = 12}, c \in Commands,
                 d \in BOOLEAN}
        \cup {Call("StatusResponse", [cls |-> c, response |-> r]) :
                 c \in {"Hm300Decode0B", "Hm600Decode0B"}, r \in Responses}
        \cup {Call("StatusResponse",
                   [cls |-> "Hm1200Decode0B", response |-> StatusLong])}

InitCodec ==
    /\ tx_queue = <<>>
    /\ txn = [t \in Txns |-> NoTxn]
    /\ rx_channel_id = 0
    /\ rx_channel_ack = FALSE
    /\ rx_error = 0
    /\ rx = Idle
    /\ tx_tags = <<>>
    /\ n_sent = 0
    /\ last = Outcome("", 0, NoneVal, NoResult)
    /\ codec \in Calls
    /\ nrf = [reg |-> PowerOn, sent |-> PowerOn]

Returned(raised, v) == [codec EXCEPT !.done = TRUE, !.raised = raised, !.v = v]

\* the fragments a composer gave, up to the first that raised
Given(rs) ==
    LET bad == {k \in 1..Len(rs) : rs[k].raised # ""}
        n == IF bad = {} THEN Len(rs)
             ELSE (CHOOSE k \in bad : \A j \in bad : k <= j) - 1
    IN [raised |-> IF bad = {} THEN "" ELSE rs[n + 1].raised,
        v |-> [k \in 1..n |-> rs[k].v]]

\* bytes(frame) for frame in RequestFactory(payload, dtu_ser, inverter_ser)
Iterate ==
    /\ codec.fn = "RequestFactory"
    /\ ~codec.done
    /\ LET r == RequestFactory(codec.arg, DtuSer, InverterSer)
       IN codec' = Returned(r.raised,
                            [k \in 1..Len(r.v) |-> ESBFrame_bytes(r.v[k])])
    /\ UNCHANGED <<tx_queue, txn, rx_channel_id, rx_channel_ack, rx_error, rx,
                   tx_tags, n_sent, last, nrf>>

\* __iter__ on a long payload that already has its CRC-16: the sequence
\* bytes of the frames it gives
IterateLong ==
    /\ codec.fn = "iter"
    /\ ~codec.done
    /\ LET r == iter([payload |-> codec.arg, maincmd |-> <<21>>,
                      source |-> ser_to_hm_addr(DtuSer).v,
                      target |-> ser_to_hm_addr(InverterSer).v])
       IN codec' = Returned(r.raised,
                            [k \in 1..Len(r.v) |-> Slice(r.v[k].payload, 0, 1)])
    /\ UNCHANGED <<tx_queue, txn, rx_channel_id, rx_channel_ack, rx_error, rx,
                   tx_tags, n_sent, last, nrf>>

\* compose_esb_packet(payload, src=dtu_ser, dst=inverter_ser)
Packet ==
    /\ codec.fn = "compose_esb_packet"
    /\ ~codec.done
    /\ LET r == Given(compose_esb_packet(codec.arg, 17, <<21>>, <<128, 11>>,
                                         DtuSer, InverterSer))
       IN codec' = Returned(r.raised, r.v)
    /\ UNCHANGED <<tx_queue, txn, rx_channel_id, rx_channel_ack, rx_error, rx,
                   tx_tags, n_sent, last, nrf>>

\* compose_esb_fragment(chunk, src=dtu_ser, dst=inverter_ser)
Fragment ==
    /\ codec.fn = "compose_esb_fragment"
    /\ ~codec.done
    /\ LET r == compose_esb_fragment(codec.arg, <<21>>, <<128, 11>>,
                                     DtuSer, InverterSer)
       IN codec' = Returned(r.raised, IF r.raised = "" THEN <<r.v>> ELSE <<>>)
    /\ UNCHANGED <<tx_queue, txn, rx_channel_id, rx_channel_ack, rx_error, rx,
                   tx_tags, n_sent, last, nrf>>

\* f = ESBFrame.frombytes(data): its attributes and bytes(f)
Frombytes ==
    /\ codec.fn = "frombytes"
    /\ ~codec.done
    /\ LET f == frombytes(codec.arg)
       IN codec' = Returned(f.raised,
                            IF f.raised # "" THEN <<>>
                            ELSE <<f.preamble, f.target, f.source, f.payload,
                                   ESBFrame_bytes(f)>>)
    /\ UNCHANGED <<tx_queue, txn, rx_channel_id, rx_channel_ack, rx_error, rx,
                   tx_tags, n_sent, last, nrf>>

\* InverterPacketFragment(payload=...).dst
Dst ==
    /\ codec.fn = "dst"
    /\ ~codec.done
    /\ LET d == frag_dst(codec.arg)
       IN codec' = Returned(d.raised, d.v)
    /\ UNCHANGED <<tx_queue, txn, rx_channel_id, rx_channel_ack, rx_error, rx,
                   tx_tags, n_sent, last, nrf>>

\* ser_to_hm_addr(ser) and ser_to_esb_addr(ser)
Addr ==
    /\ codec.fn = "ser_to_esb_addr"
    /\ ~codec.done
    /\ LET hm == ser_to_hm_addr(codec.arg)
           esb == ser_to_esb_addr(codec.arg)
       IN codec' = Returned(IF hm.raised THEN "ValueError" ELSE "",
                            IF hm.raised THEN <<>> ELSE <<hm.v, esb.v>>)
    /\ UNCHANGED <<tx_queue, txn, rx_channel_id, rx_channel_ack, rx_error, rx,
                   tx_tags, n_sent, last, nrf>>

\* InverterPacketFragment(payload=...) on the i-th composed fragment, then
\* frame_append
Loopback(t, i) ==
    /\ codec.fn = "RequestFactory"
    /\ codec.done
    /\ Len(codec.v) <= MaxRx
    /\ i \in 1..Len(codec.v)
    /\ txn[t].made
    /\ RxTotal < MaxRx
    /\ IF crc8_ok(codec.v[i])
       THEN /\ txn' = [txn EXCEPT ![t] = frame_append(@, codec.v[i])]
            /\ last' = Outcome("frame_append", t, NoneVal, NoResult)
       ELSE /\ txn' = txn
            /\ last' = Outcome("parse", t, NoneVal, Raise("BufferError", "crc8", 0))
    /\ UNCHANGED <<codec, tx_queue, rx_channel_id, rx_channel_ack, rx_error, rx,
                   tx_tags, n_sent, nrf>>

\* ResponseDecoder(response, inverter_ser=...).inverter_model
Model ==
    /\ codec.fn = "inverter_model"
    /\ ~codec.done
    /\ LET m == inverter_model(codec.arg)
       IN codec' = Returned(m.raised, IF m.raised = "" THEN <<m.v>> ELSE <<>>)
    /\ UNCHANGED <<tx_queue, txn, rx_channel_id, rx_channel_ack, rx_error, rx,
                   tx_tags, n_sent, last, nrf>>

\* ResponseDecoder(response, request=..., inverter_ser=...).decode()
Decode ==
    /\ codec.fn = "decode"
    /\ ~codec.done
    /\ LET r == decode(codec.arg, codec.arg.debug)
       IN codec' = Returned(r.raised, r.v)
    /\ UNCHANGED <<tx_queue, txn, rx_channel_id, rx_channel_ack, rx_error, rx,
                   tx_tags, n_sent, last, nrf>>

\* every property of a status decoder made on a response
Status ==
    /\ codec.fn = "StatusResponse"
    /\ ~codec.done
    /\ codec' = Returned("", properties(codec.arg.cls, codec.arg.response))
    /\ UNCHANGED <<tx_queue, txn, rx_channel_id, rx_channel_ack, rx_error, rx,
                   tx_tags, n_sent, last, nrf>>

\* compose_esb_packet(compose_set_time_payload(timestamp), src=dtu_ser,
\* dst=inverter_ser): the payload and the fragments
SetTime ==
    /\ codec.fn = "compose_set_time_payload"
    /\ ~codec.done
    /\ LET payload == compose_set_time_payload(codec.arg)
           r == Given(compose_esb_packet(payload, 17, <<21>>, <<128, 11>>,
                                         DtuSer, InverterSer))
       IN codec' = Returned(r.raised, [payload |-> payload, frames |-> r.v])
    /\ UNCHANGED <<tx_queue, txn, rx_channel_id, rx_channel_ack, rx_error, rx,
                   tx_tags, n_sent, last, nrf>>

NextCodec ==
    \/ Iterate
    \/ IterateLong
    \/ Packet
    \/ Fragment
    \/ Frombytes
    \/ Dst
    \/ Addr
    \/ Model
    \/ Decode
    \/ Status
    \/ SetTime
    \/ codec.fn = "RequestFactory" /\ codec.done
          /\ Construct({1}, <<ReplayConfig, ScanConfig>>)
    \/ \E i \in 1..MaxRx : Loopback(1, i)
    \/ Reassemble({1}, {NoneVal})

SpecCodec == InitCodec /\ [][NextCodec]_vars

(***************************************************************************)
(* Reassembly, stated on the scratch buffer                                *)
(***************************************************************************)
MinOf(S) == CHOOSE m \in S : \A n \in S : m <= n
MaxOf(S) == CHOOSE m \in S : \A n \in S : n <= m

\* the src get_payload filters by, for the argument it was called with
EffSrc(t, src_arg) == IF src_arg.t = "none" THEN txn[t].inverter_addr ELSE src_arg

\* positions in the scratch of the fragments from src
FromSrc(t, src_arg) ==
    {i \in 1..Len(txn[t].scratch) :
        PyEq(IntVal(frag_src(txn[t].scratch[i])), EffSrc(t, src_arg))}

Terminals(t, src_arg) ==
    {i \in FromSrc(t, src_arg) : frag_seq(txn[t].scratch[i]) > 128}

\* the terminal fragment get_payload uses: the first to have arrived
EndFrame(t, src_arg) == txn[t].scratch[MinOf(Terminals(t, src_arg))]

Announced(t, src_arg) == frag_seq(EndFrame(t, src_arg)) - 128

WithSeq(t, src_arg, k) ==
    {i \in FromSrc(t, src_arg) : frag_seq(txn[t].scratch[i]) = k}

MissingSeqs(t, src_arg) ==
    {k \in 1..(Announced(t, src_arg) - 1) : WithSeq(t, src_arg, k) = {}}

\* the fragment used for seq k: the first to have arrived
Chunk(t, src_arg, k) == txn[t].scratch[MinOf(WithSeq(t, src_arg, k))]

RECURSIVE Joined(_, _, _)
Joined(t, src_arg, k) ==
    IF k = 0 THEN <<>>
    ELSE Joined(t, src_arg, k - 1) \o frag_data(Chunk(t, src_arg, k))

Assembled(t, src_arg) ==
    Joined(t, src_arg, Announced(t, src_arg) - 1) \o frag_data(EndFrame(t, src_arg))

Complete(t, src_arg) ==
    Terminals(t, src_arg) # {} /\ MissingSeqs(t, src_arg) = {}

TrailerMatches(payload) ==
    /\ Len(payload) >= 2
    /\ f_crc_m(DropLast(payload, 2))
         = 256 * payload[Len(payload) - 1] + payload[Len(payload)]

\* the retransmit request for frame i: 15, inverter address, DTU address,
\* 0x80 + i, CRC-8
RetransmitRequest(i) ==
    LET body == <<21, 114, 34, 1, 67, 120, 86, 52, 18, 128 + i>>
    IN body \o <<f_crc8(body)>>

HasSerials(t) == txn[t].inverter_ser # NoSer /\ txn[t].dtu_ser # NoSer

\* the step is a get_payload(src_arg) call on transaction t
IsGetPayload(t, src_arg) ==
    last'.op = "get_payload" /\ last'.t = t /\ last'.src = src_arg

(***************************************************************************)
(* C1 (as written): with the terminal fragment and fragments 1..N-1 from   *)
(* src in the scratch and a matching CRC-16 trailer, get_payload returns   *)
(* the terminal's main_cmd and the concatenated data without its last two  *)
(* bytes.                                                                  *)
(***************************************************************************)
C1_Stripped ==
    (/\ last.op = "get_payload"
     /\ Complete(last.t, last.src)
     /\ TrailerMatches(Assembled(last.t, last.src)))
    => /\ last.kind = "ok"
       /\ last.cmd = main_cmd(EndFrame(last.t, last.src))
       /\ last.payload = DropLast(Assembled(last.t, last.src), 2)

(***************************************************************************)
(* C1 (amended): in that case get_payload returns the terminal's main_cmd  *)
(* and the data of fragments 1..N-1 in sequence order followed by the      *)
(* terminal's data, CRC-16 trailer included; the terminal and each         *)
(* fragment i are the first from src to have arrived.  For N = 1 the       *)
(* result is the data of the lone fragment, trailer included.              *)
(***************************************************************************)
C1_Reassembled ==
    (/\ last.op = "get_payload"
     /\ Complete(last.t, last.src)
     /\ TrailerMatches(Assembled(last.t, last.src)))
    => /\ last.kind = "ok"
       /\ last.cmd = main_cmd(EndFrame(last.t, last.src))
       /\ last.payload = Assembled(last.t, last.src)
       /\ Announced(last.t, last.src) = 1
            => last.payload = frag_data(EndFrame(last.t, last.src))

\* a three-fragment reply whose terminal fragment arrived first is returned
C1_Witness ==
    /\ last.op = "get_payload"
    /\ last.kind = "ok"
    /\ Announced(last.t, last.src) = 3
    /\ MinOf(Terminals(last.t, last.src)) = 1
    /\ Len(last.payload) = 4

(***************************************************************************)
(* C2 (as written): when the terminal fragment is there and some index in  *)
(* 1..N-1 is missing, get_payload fails with MissingFragment(i) and the TX *)
(* queue grows by exactly the retransmit request for i.                    *)
(***************************************************************************)
C2_Step(t, src_arg) ==
    (/\ IsGetPayload(t, src_arg)
     /\ Terminals(t, src_arg) # {}
     /\ MissingSeqs(t, src_arg) # {})
    => /\ last'.kind = "BufferError"
       /\ last'.frame_id = MinOf(MissingSeqs(t, src_arg))
       /\ tx_queue' = Append(tx_queue, RetransmitRequest(last'.frame_id))

C2_AlwaysEnqueues == [][\A t \in Txns, src_arg \in SrcArgs : C2_Step(t, src_arg)]_vars

(***************************************************************************)
(* C2 (amended): with i the smallest missing index, a transaction with a   *)
(* radio and both serials fails with MissingFragment(i) and appends        *)
(* exactly the retransmit request for i; a transaction without a radio     *)
(* fails with MissingFragment(i) and leaves the TX queue alone; one with a *)
(* radio but without both serials fails with ValueError while composing    *)
(* the request and leaves the TX queue alone.                              *)
(***************************************************************************)
C2_AmendedStep(t, src_arg) ==
    (/\ IsGetPayload(t, src_arg)
     /\ Terminals(t, src_arg) # {}
     /\ MissingSeqs(t, src_arg) # {})
    => LET i == MinOf(MissingSeqs(t, src_arg))
       IN /\ last'.frame_id = i
          /\ txn[t].radio /\ HasSerials(t)
               => /\ last'.kind = "BufferError"
                  /\ tx_queue' = Append(tx_queue, RetransmitRequest(i))
          /\ ~txn[t].radio
               => last'.kind = "BufferError" /\ tx_queue' = tx_queue
          /\ txn[t].radio /\ ~HasSerials(t)
               => last'.kind = "ValueError" /\ tx_queue' = tx_queue

C2_MissingMiddle ==
    [][\A t \in Txns, src_arg \in SrcArgs : C2_AmendedStep(t, src_arg)]_vars

\* fragment 1 and the terminal of three are there, fragment 2 was asked for
C2_Witness ==
    /\ last.op = "get_payload"
    /\ last.kind = "BufferError"
    /\ last.frame_id = 2
    /\ Terminals(last.t, last.src) # {}
    /\ Len(tx_queue) > 0
    /\ tx_queue[Len(tx_queue)] = RetransmitRequest(2)

(***************************************************************************)
(* C3 (as written): with fragments from src but no terminal among them,    *)
(* get_payload enqueues one retransmit request for the highest seq plus    *)
(* one and fails with MissingFragment.                                     *)
(***************************************************************************)
SeqLast(t, src_arg) ==
    MaxOf({frag_seq(txn[t].scratch[i]) : i \in FromSrc(t, src_arg)})

C3_Step(t, src_arg) ==
    (/\ IsGetPayload(t, src_arg)
     /\ FromSrc(t, src_arg) # {}
     /\ Terminals(t, src_arg) = {})
    => /\ last'.kind = "BufferError"
       /\ tx_queue' = Append(tx_queue, RetransmitRequest(SeqLast(t, src_arg) + 1))

C3_AlwaysEnqueues == [][\A t \in Txns, src_arg \in SrcArgs : C3_Step(t, src_arg)]_vars

(***************************************************************************)
(* C3 (amended): with seq_last the highest seq among the fragments from    *)
(* src, a transaction with a radio and both serials, for seq_last below    *)
(* 0x7F, appends exactly the retransmit request for seq_last + 1 and fails *)
(* with MissingFragment; without a radio it fails with MissingFragment and *)
(* leaves the TX queue alone; with a radio and seq_last at least 0x7F it   *)
(* fails with OverflowError, and with a radio, seq_last below 0x7F and not *)
(* both serials with ValueError, the TX queue left alone in both cases.    *)
(***************************************************************************)
C3_AmendedStep(t, src_arg) ==
    (/\ IsGetPayload(t, src_arg)
     /\ FromSrc(t, src_arg) # {}
     /\ Terminals(t, src_arg) = {})
    => LET seq_last == SeqLast(t, src_arg)
       IN /\ txn[t].radio /\ seq_last < 127 /\ HasSerials(t)
               => /\ last'.kind = "BufferError"
                  /\ last'.frame_id = seq_last + 1
                  /\ tx_queue' = Append(tx_queue, RetransmitRequest(seq_last + 1))
          /\ ~txn[t].radio
               => last'.kind = "BufferError" /\ tx_queue' = tx_queue
          /\ txn[t].radio /\ seq_last >= 127
               => last'.kind = "OverflowError" /\ tx_queue' = tx_queue
          /\ txn[t].radio /\ seq_last < 127 /\ ~HasSerials(t)
               => last'.kind = "ValueError" /\ tx_queue' = tx_queue

C3_MissingTerminal ==
    [][\A t \in Txns, src_arg \in SrcArgs : C3_AmendedStep(t, src_arg)]_vars

\* fragments 1 and 2 arrived in that order, no terminal: fragment 3 was asked for
C3_Witness ==
    /\ last.op = "get_payload"
    /\ last.kind = "BufferError"
    /\ Terminals(last.t, last.src) = {}
    /\ Len(txn[last.t].scratch) = 2
    /\ frag_seq(txn[last.t].scratch[1]) = 2
    /\ frag_seq(txn[last.t].scratch[2]) = 1
    /\ Len(tx_queue) > 0
    /\ tx_queue[Len(tx_queue)] = RetransmitRequest(3)

(***************************************************************************)
(* C4: when all fragments 1..N from src are there and the CRC-16 over the  *)
(* payload without its last two bytes differs from those two bytes,        *)
(* get_payload fails with ValueError (CRC mismatch) and leaves the TX      *)
(* queue and the scratch as they were.                                     *)
(***************************************************************************)
C4_Step(t, src_arg) ==
    (/\ IsGetPayload(t, src_arg)
     /\ Complete(t, src_arg)
     /\ Len(Assembled(t, src_arg)) >= 2
     /\ ~TrailerMatches(Assembled(t, src_arg)))
    => /\ last'.kind = "ValueError"
       /\ last'.why = "crc"
       /\ tx_queue' = tx_queue
       /\ txn' = txn

C4_CrcMismatch == [][\A t \in Txns, src_arg \in SrcArgs : C4_Step(t, src_arg)]_vars

\* a complete three-fragment reply with a wrong trailer, radio at hand
C4_Witness ==
    /\ last.op = "get_payload"
    /\ last.kind = "ValueError"
    /\ last.why = "crc"
    /\ txn[last.t].radio
    /\ Complete(last.t, last.src)
    /\ Announced(last.t, last.src) = 3

(***************************************************************************)
(* C5: whenever get_payload returns a payload, every fragment whose data   *)
(* went into it has a CRC-8 trailer equal to the CRC-8 of its other bytes, *)
(* and the last two bytes of the payload are the Modbus CRC-16 of the      *)
(* bytes before them.                                                      *)
(***************************************************************************)
Crc8Holds(frame) == f_crc8(SubSeq(frame, 1, Len(frame) - 1)) = frame[Len(frame)]

Contributors(t, src_arg) ==
    {EndFrame(t, src_arg)}
        \cup {Chunk(t, src_arg, k) : k \in 1..(Announced(t, src_arg) - 1)}

C5_NoSilentCorruption ==
    (last.op = "get_payload" /\ last.kind = "ok")
    => /\ \A frame \in Contributors(last.t, last.src) : Crc8Holds(frame)
       /\ TrailerMatches(last.payload)

\* a payload came back although a damaged frame and a fragment with other
\* data had been offered before
C5_Witness ==
    /\ last.op = "get_payload"
    /\ last.kind = "ok"
    /\ Announced(last.t, last.src) = 1
    /\ Len(txn[last.t].scratch) >= 2

(***************************************************************************)
(* C6: in every reachable state every fragment in a scratch buffer has a   *)
(* CRC-8 trailer equal to the CRC-8 of all its preceding bytes: a frame    *)
(* that fails the check is never appended.                                 *)
(***************************************************************************)
C6_ScratchFramesChecked ==
    \A t \in Txns : \A i \in 1..Len(txn[t].scratch) : Crc8Holds(txn[t].scratch[i])

\* the parser turned a frame away during a receive that had already
\* appended a fragment
C6_Witness ==
    /\ last.op = "rxtx"
    /\ last.kind = "BufferError"
    /\ last.why = "crc8"
    /\ Len(txn[last.t].scratch) >= 1

(***************************************************************************)
(* C7 (as written): a frame that fails the CRC-8 check during receive is   *)
(* dropped and rxtx() returns normally, its result True or False.          *)
(***************************************************************************)
C7_RxtxReturnsNormally ==
    last.op = "rxtx" => last.kind \in {"True", "False"}

(***************************************************************************)
(* C8 (as written): a packet is only ever transmitted by rxtx() of the     *)
(* transaction that enqueued it, and right after a transaction is          *)
(* constructed the TX queue holds nothing but its own request.             *)
(***************************************************************************)
C8_OwnQueue ==
    /\ last.op = "transmit" => last.tag.by = last.t
    /\ last.op = "new" => \A k \in 1..Len(tx_tags) : tx_tags[k].by = last.t

(***************************************************************************)
(* C9: packets are handed to Radio.transmit in the order in which they     *)
(* were enqueued: the k-th packet transmitted is the k-th packet enqueued, *)
(* and the queue holds the packets enqueued after it in that order.        *)
(***************************************************************************)
C9_Fifo ==
    /\ Len(tx_tags) = Len(tx_queue)
    /\ \A k \in 1..Len(tx_tags) : tx_tags[k].n = n_sent + k
    /\ last.op = "transmit" => last.tag.n = n_sent

\* a retransmit request enqueued by get_payload went out after the request
\* enqueued before it, with a later packet still waiting
C9_Witness ==
    /\ last.op = "transmit"
    /\ last.tag.n >= 2
    /\ last.payload = RetransmitRequest(1)
    /\ Len(tx_queue) >= 1

(***************************************************************************)
(* C10: called with an empty TX queue or on a transaction without a radio, *)
(* rxtx() returns False and leaves the TX queue, the scratch buffers and   *)
(* the radio's channel state as they were; nothing is transmitted or       *)
(* polled.                                                                 *)
(***************************************************************************)
\* the step begins (and for NoWork also ends) an rxtx() call on t
IsRxtxCall(t) ==
    /\ rx.t = 0
    /\ last'.t = t
    /\ last'.op \in {"rxtx", "transmit"}

C10_Step(t) ==
    (IsRxtxCall(t) /\ (Len(tx_queue) = 0 \/ ~txn[t].radio))
    => /\ last'.op = "rxtx"
       /\ last'.kind = "False"
       /\ rx' = rx
       /\ n_sent' = n_sent
       /\ UNCHANGED <<tx_queue, txn, rx_channel_id, rx_channel_ack, rx_error>>

C10_NoWork == [][\A t \in Txns : C10_Step(t)]_vars

\* no radio, yet packets wait in the queue, and the radio has hopped before
C10_Witness ==
    /\ last.op = "rxtx"
    /\ last.why = "nowork"
    /\ ~txn[last.t].radio
    /\ Len(tx_queue) >= 1
    /\ rx_channel_id # 0

(***************************************************************************)
(* C11 (as written): an rxtx() call that transmits ends by returning True  *)
(* exactly when at least one fragment was appended to the scratch during   *)
(* its receive phase, it returns False when the deadline passes without a  *)
(* fragment, and each fragment receive yields is appended at the end of    *)
(* the scratch.                                                            *)
(***************************************************************************)
\* the step ends the rxtx() call in progress
EndsCycle == rx.t # 0 /\ rx'.t = 0

\* fragments appended to the scratch since the call in progress transmitted
Gained == Len(txn'[rx.t].scratch) - rx.base

C11_Step ==
    /\ EndsCycle => /\ last'.op = "rxtx"
                    /\ (last'.kind = "True") <=> (Gained > 0)
                    /\ (rx.left = 0 /\ Gained = 0) => last'.kind = "False"
    /\ (rx.t # 0 /\ last'.op = "receive")
       => /\ \E payload \in RxFrames :
                txn'[rx.t].scratch = Append(txn[rx.t].scratch, payload)
          /\ \A u \in Txns \ {rx.t} : txn'[u] = txn[u]

C11_TrueIffContact == [][C11_Step]_vars

(***************************************************************************)
(* C12 (as written): for the fragments in a scratch buffer, get_payload    *)
(* has the same outcome (the returned cmd and payload, or the failure and  *)
(* the retransmit request enqueued) in whatever order they arrived.        *)
(***************************************************************************)
Orders(n) == {f \in [1..n -> 1..n] : \A i, j \in 1..n : f[i] = f[j] => i = j}

Shuffles(s) == {[i \in 1..Len(s) |-> s[f[i]]] : f \in Orders(Len(s))}

C12_PermutationInvariant ==
    \A t \in Txns : \A src_arg \in SrcArgs : \A s \in Shuffles(txn[t].scratch) :
        get_payload([txn[t] EXCEPT !.scratch = s], src_arg)
            = get_payload(txn[t], src_arg)

(***************************************************************************)
(* C13 (as written): a scratch buffer holds at most one fragment per       *)
(* (src, seq), and a payload get_payload returns is built from the         *)
(* fragment received last for each sequence number.                        *)
(***************************************************************************)
Key(frame) == <<frag_src(frame), frag_seq(frame)>>

\* the fragment received last with sequence number k
Latest(t, src_arg, k) == txn[t].scratch[MaxOf(WithSeq(t, src_arg, k))]

RECURSIVE JoinedLatest(_, _, _)
JoinedLatest(t, src_arg, k) ==
    IF k = 0 THEN <<>>
    ELSE JoinedLatest(t, src_arg, k - 1) \o frag_data(Latest(t, src_arg, k))

C13_KeyedSet ==
    /\ \A t \in Txns : \A i, j \in 1..Len(txn[t].scratch) :
           Key(txn[t].scratch[i]) = Key(txn[t].scratch[j]) => i = j
    /\ (last.op = "get_payload" /\ last.kind = "ok")
       => LET end == txn[last.t].scratch[MaxOf(Terminals(last.t, last.src))]
          IN last.payload = JoinedLatest(last.t, last.src, frag_seq(end) - 128)
                                \o frag_data(end)

(***************************************************************************)
(* C14: appending a byte-identical copy of a fragment that is already in   *)
(* the scratch, whichever fragment and wherever it sits, leaves the        *)
(* outcome of get_payload as it was: the same cmd and payload, or the same *)
(* failure with the same retransmit request.                               *)
(***************************************************************************)
\* the step appends to t's scratch a copy of a fragment it already holds
AppendsCopy(t) ==
    /\ last'.op = "frame_append"
    /\ last'.t = t
    /\ Len(txn'[t].scratch) = Len(txn[t].scratch) + 1
    /\ \E i \in 1..Len(txn[t].scratch) :
           txn'[t].scratch[Len(txn'[t].scratch)] = txn[t].scratch[i]

C14_Step(t) ==
    AppendsCopy(t)
    => \A src_arg \in SrcArgs :
           get_payload(txn'[t], src_arg) = get_payload(txn[t], src_arg)

C14_DuplicateHarmless == [][\A t \in Txns : C14_Step(t)]_vars

\* a copy of the terminal fragment arrived after a fragment with another
\* sequence number
C14_Witness ==
    /\ last.op = "frame_append"
    /\ txn[last.t].scratch = <<FragEnd3, Frag1, FragEnd3>>

(***************************************************************************)
(* C17 (as written): while the channel is un-acked the RX channel advances *)
(* on every second empty poll of receive, and while it is acked it does    *)
(* not advance.                                                            *)
(***************************************************************************)
\* the step is one turn of receive's loop that found no payload
IsEmptyPoll == rx.t # 0 /\ last'.op = "poll"

Advances == rx_channel_id' # rx_channel_id

\* the entry of the hop list after the current one
NextInHopList == (rx_channel_id + 1) % Len(rx_channel_list)

C17_OncePerTwoStep ==
    /\ (IsEmptyPoll /\ ~rx_channel_ack) => (Advances <=> rx_error' % 2 = 0)
    /\ rx_channel_ack' => ~Advances

C17_OncePerTwo == [][C17_OncePerTwoStep]_vars

(***************************************************************************)
(* C17 (amended): an empty poll of receive on an un-acked channel always   *)
(* advances the RX channel to the next entry of the hop list; the first    *)
(* empty poll after a received payload leaves the channel acked and does   *)
(* not advance; the second clears the ack and advances.  No other step     *)
(* changes the RX channel.                                                 *)
(***************************************************************************)
C17_AmendedStep ==
    /\ (IsEmptyPoll /\ ~rx_channel_ack)
       => rx_channel_id' = NextInHopList /\ ~rx_channel_ack'
    /\ (IsEmptyPoll /\ rx_channel_ack /\ rx_error = 0)
       => ~Advances /\ rx_channel_ack'
    /\ (IsEmptyPoll /\ rx_channel_ack /\ rx_error >= 1)
       => rx_channel_id' = NextInHopList /\ ~rx_channel_ack'
    /\ ~IsEmptyPoll => ~Advances

C17_HopsWhenUnacked == [][C17_AmendedStep]_vars

\* the first cycle's first two polls were empty and both advanced
C17_Witness ==
    /\ last.op = "poll"
    /\ n_sent = 1
    /\ rx_error = 2
    /\ rx_channel_id = 2
    /\ ~rx_channel_ack

(***************************************************************************)
(* C15 (as written): the fragments RequestFactory gives for a payload p,   *)
(* parsed and appended to a scratch in any order, reassemble to exactly p. *)
(***************************************************************************)
\* get_payload has just run on a scratch that holds each composed fragment
\* once, in some order
LoopedBack ==
    /\ codec.fn = "RequestFactory"
    /\ codec.done
    /\ last.op = "get_payload"
    /\ txn[last.t].scratch \in Shuffles(codec.v)

C15_RoundTrip ==
    LoopedBack => last.kind = "ok" /\ last.payload = codec.arg

(***************************************************************************)
(* C15 (amended): in that case get_payload returns the main command 0x15   *)
(* and p followed by the two bytes of its Modbus CRC-16; and __iter__      *)
(* gives all the fragments of a payload exactly when the payload with its  *)
(* CRC-16 is at most 16 * 127 bytes long.                                  *)
(***************************************************************************)
C15_RoundTripWithCrc ==
    /\ LoopedBack
       => /\ last.kind = "ok"
          /\ last.cmd = 21
          /\ last.payload = codec.arg \o pack_H(f_crc_m(codec.arg))
    /\ (codec.fn = "iter" /\ codec.done)
       => /\ (codec.raised = "") <=> (Len(codec.arg) <= 16 * 127)
          /\ codec.raised = "" => Len(codec.v) * 16 >= Len(codec.arg)

\* three fragments, the last appended first
C15_Witness ==
    /\ LoopedBack
    /\ Len(codec.v) = 3
    /\ txn[last.t].scratch = <<codec.v[3], codec.v[1], codec.v[2]>>
    /\ last.kind = "ok"

(***************************************************************************)
(* C16 (as written): for every payload both composers, RequestFactory and  *)
(* compose_esb_packet, give N >= 1 fragments that carry the payload and    *)
(* its Modbus CRC-16, with the sequence bytes 1, ..., N-1 and, on the last *)
(* fragment, N + 0x80.                                                     *)
(***************************************************************************)
\* the sequence byte and the data of an on-air request fragment
SeqByte(frame) == frame[10]
DataOf(frame) == DropLast(Slice(frame, 10, Len(frame)), 1)

RECURSIVE Concat(_, _)
Concat(frames, k) ==
    IF k = 0 THEN <<>> ELSE Concat(frames, k - 1) \o DataOf(frames[k])

C16_Numbered ==
    /\ (codec.done /\ codec.fn \in {"RequestFactory", "compose_esb_packet"})
       => LET n == Len(codec.v)
          IN /\ codec.raised = ""
             /\ n >= 1
             /\ \A k \in 1..(n - 1) : SeqByte(codec.v[k]) = k
             /\ SeqByte(codec.v[n]) = n + 128
             /\ Concat(codec.v, n) = codec.arg \o pack_H(f_crc_m(codec.arg))
    /\ (codec.done /\ codec.fn = "iter")
       => /\ codec.raised = ""
          /\ codec.v[Len(codec.v)] = <<Len(codec.v) + 128>>

(***************************************************************************)
(* C18 (as written): ESBFrame.frombytes(b) of a well-formed on-air frame b *)
(* has b's preamble, target, source and payload, bytes() of it is b again, *)
(* and the last byte of the built frame is the CRC-8 of the bytes before   *)
(* it.                                                                     *)
(***************************************************************************)
C18_RoundTrip ==
    (codec.done /\ codec.fn = "frombytes")
    => /\ codec.raised = ""
       /\ codec.v[1] = Slice(codec.arg, 0, 1)
       /\ codec.v[2] = Slice(codec.arg, 1, 5)
       /\ codec.v[3] = Slice(codec.arg, 5, 9)
       /\ codec.v[4] = DropLast(Slice(codec.arg, 9, Len(codec.arg)), 1)
       /\ codec.v[5] = codec.arg
       /\ codec.v[5][Len(codec.v[5])] = f_crc8(DropLast(codec.v[5], 1))

HexBytes(ser) ==
    LET d == TakeLast(ser, 8)
        pad == 8 - Len(d)
        digit(i) == IF i <= pad THEN 0 ELSE d[i - pad]
    IN [k \in 1..4 |-> 16 * digit(2 * k - 1) + digit(2 * k)]

C20_AddressDerivation ==
    (codec.done /\ codec.fn = "ser_to_esb_addr")
    => /\ codec.raised = ""
       /\ codec.v[1] = HexBytes(codec.arg)
       /\ codec.v[2] = <<1>> \o HexBytes(codec.arg)
       /\ codec.arg = <<1, 1, 4, 1, 7, 2, 2, 2, 0, 1, 4, 3>>
          => /\ codec.v[1] = <<114, 34, 1, 67>>
             /\ codec.v[2] = <<1, 114, 34, 1, 67>>

\* the serial of the example has been converted
C20_Witness ==
    /\ codec.done
    /\ codec.fn = "ser_to_esb_addr"
    /\ codec.arg = <<1, 1, 4, 1, 7, 2, 2, 2, 0, 1, 4, 3>>
    /\ codec.v = <<<<114, 34, 1, 67>>, <<1, 114, 34, 1, 67>>>>

(***************************************************************************)
(* C21 (as written): the family depends only on the decimal prefix of the  *)
(* serial: inverter_model gives Hm300 for 1121, Hm600 for 1141, Hm1200 for *)
(* 1161, and fails with NotImplementedError for any other prefix.          *)
(***************************************************************************)
FamilyOf(ser) ==
    LET p == Slice(ser, 0, 4)
    IN IF p = <<1, 1, 2, 1>> THEN "Hm300"
       ELSE IF p = <<1, 1, 4, 1>> THEN "Hm600"
       ELSE IF p = <<1, 1, 6, 1>> THEN "Hm1200"
       ELSE ""

C21_UnknownModel ==
    (codec.done /\ codec.fn = "inverter_model" /\ codec.arg # NoSer)
    => IF FamilyOf(codec.arg) = ""
       THEN codec.raised = "NotImplementedError"
       ELSE codec.raised = "" /\ codec.v = <<FamilyOf(codec.arg)>>

(***************************************************************************)
(* C22 (as written): for every family, decode dispatches each of the       *)
(* opcodes 0x01, 0x02, 0x11 and 0x12 to the events decoder.                *)
(***************************************************************************)
\* a decode call for a serial of a known family has returned or raised
Decoded == codec.done /\ codec.fn = "decode" /\ FamilyOf(codec.arg.inverter_ser) # ""
OpcodeOf(request) == request[11]

C23_UnsupportedReply ==
    (Decoded /\ OpcodeOf(codec.arg.request) \notin {2, 11, 17, 18})
    => IF codec.arg.debug
       THEN codec.raised = "" /\ codec.v[1].name = "DebugDecodeAny"
       ELSE codec.raised = "UnsupportedReply" /\ codec.v = <<>>

(***************************************************************************)
(* C24 (as written): in the status decoder of every family, every current  *)
(* property (DC and AC) is the big-endian 16-bit number at its base        *)
(* divided by 100; the number 0x002C at base 34 of an HM600 reply gives an *)
(* AC current of 0.44 A.                                                   *)
(***************************************************************************)
\* the step made every property of a status decoder
StatusDone == codec.done /\ codec.fn = "StatusResponse"
Currents ==
    {"dc_current_0", "dc_current_1", "dc_current_2", "dc_current_3",
     "ac_current_0"}
\* the big-endian 16-bit number at base (0-based) of the response
U16At(response, base) == 256 * response[base + 1] + response[base + 2]

C24_CurrentsByHundred ==
    StatusDone
    => /\ \A k \in 1..Len(codec.v) :
             (codec.v[k].prop \in Currents /\ codec.v[k].raised = "")
             => \* value = raw / 100, both sides multiplied out
                /\ codec.v[k].num * 100
                     = U16At(codec.arg.response,
                             StatusClasses[codec.arg.cls][k].base) * codec.v[k].den
                /\ StatusClasses[codec.arg.cls][k].size = 2
       /\ (codec.arg.cls = "Hm600Decode0B" /\ U16At(codec.arg.response, 34) = 44)
          => \E k \in 1..Len(codec.v) :
                /\ codec.v[k].prop = "ac_current_0"
                /\ codec.v[k].num * 100 = 44 * codec.v[k].den

(***************************************************************************)
(* C25 (as written): the set-time payload is 0B 00, the timestamp as four  *)
(* big-endian bytes, 00 00 00 05 00 00 00 00 and its Modbus CRC-16; the    *)
(* composer wraps it into a single fragment with preamble 0x15, the        *)
(* inverter's address as target, the DTU's as source and a CRC-8 trailer,  *)
(* of exactly 27 bytes.                                                    *)
(***************************************************************************)
C25_SetTimeFrame ==
    (codec.done /\ codec.fn = "compose_set_time_payload")
    => LET body == <<11, 0>> \o pack_L(codec.arg) \o <<0, 0, 0, 5, 0, 0, 0, 0>>
       IN /\ codec.raised = ""
          /\ codec.v.payload = body \o pack_H(f_crc_m(body))
          /\ Len(codec.v.frames) = 1
          /\ LET frame == codec.v.frames[1]
             IN /\ Slice(frame, 0, 1) = <<21>>
                /\ Slice(frame, 1, 5) = HexBytes(InverterSer)
                /\ Slice(frame, 5, 9) = HexBytes(DtuSer)
                /\ frame[Len(frame)] = f_crc8(DropLast(frame, 1))
                /\ Len(frame) = 27

(***************************************************************************)
(* C26: a fragment received on an RX channel sets the ack and resets the   *)
(* miss counter to 0 and leaves the channel; the next empty poll leaves    *)
(* the channel and the ack as they are; the second consecutive empty poll  *)
(* clears the ack and advances the channel to the next entry of the hop    *)
(* list, and the ack is cleared by no other step.                          *)
(***************************************************************************)
\* the step is one turn of receive's loop that read a fragment
IsFragmentPoll == rx.t # 0 /\ last'.op = "receive"

C26_Step ==
    /\ IsFragmentPoll
       => /\ rx_channel_ack'
          /\ rx_error' = 0
          /\ rx_channel_id' = rx_channel_id
    /\ (IsEmptyPoll /\ rx_channel_ack /\ rx_error = 0)
       => /\ rx_channel_id' = rx_channel_id
          /\ rx_channel_ack'
          /\ rx_error' = 1
    /\ (IsEmptyPoll /\ rx_channel_ack /\ rx_error = 1)
       => /\ rx_channel_id' = (rx_channel_id + 1) % Len(rx_channel_list)
          /\ ~rx_channel_ack'
          /\ rx_error' = 2
    /\ (rx_channel_ack /\ ~rx_channel_ack')
       => IsEmptyPoll /\ rx_error = 1

C26_StaysOneMiss == [][C26_Step]_vars

\* a fragment came on the first channel, the next poll was empty and left
\* the channel, the one after it was empty and advanced
C26_Witness ==
    /\ last.op = "poll"
    /\ rx_error = 2
    /\ rx_channel_id = 1
    /\ ~rx_channel_ack
    /\ \E t \in Txns : Len(txn[t].scratch) > 0

(***************************************************************************)
(* C27: every receive() call, and with it every rxtx() call, ends once     *)
(* fragments stop arriving.  The call starts with the initial timeout as   *)
(* its deadline; every received fragment replaces the deadline by half a   *)
(* second from its reception, whatever was left of it; an empty poll lets  *)
(* the time pass; the call returns when the deadline has passed and not    *)
(* before, and no poll is made after it.                                   *)
(***************************************************************************)
C27_DeadlineStep ==
    /\ (rx.t = 0 /\ rx'.t # 0) => rx'.left = TimeoutTicks
    /\ IsFragmentPoll => rx'.left = FragTicks - 1
    /\ IsEmptyPoll => rx'.left = rx.left - 1
    /\ (EndsCycle /\ last'.kind \in {"True", "False"}) => rx.left = 0
    /\ (rx.t # 0 /\ rx.left = 0) => rx'.t = 0

C27_Terminates ==
    /\ [][C27_DeadlineStep]_vars
    /\ (rx.t # 0) ~> (rx.t = 0)

\* a call that received a fragment while the initial timeout was running
\* has returned after one more, empty, poll
C27_Witness ==
    /\ rx.t = 0
    /\ last.op = "rxtx"
    /\ last.kind = "True"
    /\ n_sent = 1
    /\ rx_error = 1
    /\ FragTicks < TimeoutTicks

(***************************************************************************)
(* C28 (as written): when the scratch holds no fragment from the requested *)
(* source, the empty scratch included, get_payload fails with BufferError, *)
(* as for any other absent terminal fragment, and not with ValueError.     *)
(***************************************************************************)
C28_NoSourceIsMissing ==
    (last.op = "get_payload" /\ FromSrc(last.t, last.src) = {})
    => /\ last.kind = "BufferError"
       /\ last.kind # "ValueError"

(***************************************************************************)
(* C29 (as written): get_payload takes the first fragment from src whose   *)
(* sequence byte has bit 7 set, 0x80 included, as the terminal fragment,   *)
(* with N the low 7 bits of the byte: when the fragments 1..N-1 are there  *)
(* and the CRC-16 trailer matches it returns the terminal's main_cmd.      *)
(* Without such a fragment it does not return.                             *)
(***************************************************************************)
Bit7Set(t, src_arg) ==
    {i \in FromSrc(t, src_arg) : frag_seq(txn[t].scratch[i]) >= 128}
Bit7End(t, src_arg) == txn[t].scratch[MinOf(Bit7Set(t, src_arg))]
Low7(t, src_arg) == frag_seq(Bit7End(t, src_arg)) % 128
\* the data of the fragments 1..N-1, nothing for N = 0
Before(t, src_arg) ==
    IF Low7(t, src_arg) = 0 THEN <<>>
    ELSE Joined(t, src_arg, Low7(t, src_arg) - 1)

C29_Bit7Terminal ==
    last.op = "get_payload"
    => /\ (/\ Bit7Set(last.t, last.src) # {}
           /\ \A k \in 1..(Low7(last.t, last.src) - 1) :
                 WithSeq(last.t, last.src, k) # {}
           /\ TrailerMatches(Before(last.t, last.src)
                               \o frag_data(Bit7End(last.t, last.src))))
          => /\ last.kind = "ok"
             /\ last.cmd = main_cmd(Bit7End(last.t, last.src))
       /\ Bit7Set(last.t, last.src) = {} => last.kind # "ok"

(***************************************************************************)
(* C29 (amended): get_payload takes the first fragment from src whose      *)
(* sequence byte is above 0x80 as the terminal fragment, with N the byte   *)
(* less 0x80: it returns exactly when the fragments 1..N-1 are there and   *)
(* the CRC-16 trailer matches, and otherwise fails naming the first        *)
(* missing fragment.  A fragment with the sequence byte 0x80, like those   *)
(* with 0x01..0x7F, is not a terminal fragment: without a fragment above   *)
(* 0x80 get_payload does not return.                                       *)
(***************************************************************************)
C29_TerminalAbove80 ==
    last.op = "get_payload"
    => /\ Terminals(last.t, last.src) # {}
          => IF MissingSeqs(last.t, last.src) = {}
             THEN /\ (last.kind = "ok")
                       <=> TrailerMatches(Assembled(last.t, last.src))
                  /\ last.kind = "ok"
                     => /\ last.cmd = main_cmd(EndFrame(last.t, last.src))
                        /\ last.payload = Assembled(last.t, last.src)
             ELSE /\ last.kind # "ok"
                  /\ last.frame_id = MinOf(MissingSeqs(last.t, last.src))
       /\ Terminals(last.t, last.src) = {} => last.kind # "ok"

\* get_payload has failed on a scratch whose only fragment from src has the
\* sequence byte 0x80 and data with a matching CRC-16
C29_Witness ==
    /\ last.op = "get_payload"
    /\ txn[last.t].scratch = <<Frag80>>
    /\ FromSrc(last.t, last.src) = {1}
    /\ last.kind # "ok"

(***************************************************************************)
(* C30: fragments from src that are not terminal and whose seq lies        *)
(* outside 1..N-1, N being announced by the terminal fragment, change      *)
(* nothing in what get_payload does: it returns or fails as it does on the *)
(* scratch without them.  With the fragments 1, 3 and 0x82 in the scratch, *)
(* in any order, it returns the data of fragment 1 followed by the         *)
(* terminal's.                                                             *)
(***************************************************************************)
\* a fragment from src, not terminal, with a seq outside 1..N-1
Outside(t, src_arg, frame) ==
    /\ PyEq(IntVal(frag_src(frame)), EffSrc(t, src_arg))
    /\ frag_seq(frame) <= 128
    /\ frag_seq(frame) \notin 1..(Announced(t, src_arg) - 1)

Pruned(t, src_arg) ==
    [txn[t] EXCEPT
        !.scratch = SelectSeq(@, LAMBDA frame : ~Outside(t, src_arg, frame))]

C30_OutsideIgnored ==
    (last.op = "get_payload" /\ Terminals(last.t, last.src) # {})
    => /\ LET r == get_payload(Pruned(last.t, last.src), last.src).res
          IN /\ last.kind = r.kind
             /\ last.why = r.why
             /\ last.cmd = r.cmd
             /\ last.payload = r.payload
             /\ last.frame_id = r.frame_id
       /\ (/\ Len(txn[last.t].scratch) = 3
           /\ {txn[last.t].scratch[i] : i \in 1..3} = {Frag1, Frag3, FragEnd2})
          => /\ last.kind = "ok"
             /\ last.cmd = 149
             /\ last.payload = frag_data(Frag1) \o frag_data(FragEnd2)

\* get_payload has returned on a scratch with the fragments 1, 3 and 0x82
C30_Witness ==
    /\ last.op = "get_payload"
    /\ Len(txn[last.t].scratch) = 3
    /\ {txn[last.t].scratch[i] : i \in 1..3} = {Frag1, Frag3, FragEnd2}
    /\ FromSrc(last.t, last.src) = {1, 2, 3}
    /\ last.kind = "ok"

(***************************************************************************)
(* C31 (as written): however the transaction was constructed, every        *)
(* retransmit request get_payload enqueues for a missing frame_id is the   *)
(* 11-byte fragment 0x15, the transaction's inverter address, the          *)
(* transaction's DTU address, the byte 0x80 + frame_id and the CRC-8 of    *)
(* these; a transaction with a radio enqueues it whenever a fragment with  *)
(* an index up to 0x7F is missing.                                         *)
(***************************************************************************)
\* the four bytes of an address attribute of a transaction
AddrBytes(a) ==
    IF a.t = "bytes" THEN a.v ELSE IF a.t = "int" THEN pack_L(a.v) ELSE <<>>

\* the retransmit request for frame_id with the addresses of transaction t
RetransmitOf(t, frame_id) ==
    LET body == <<21>> \o AddrBytes(txn[t].inverter_addr)
                       \o AddrBytes(txn[t].dtu_addr) \o <<128 + frame_id>>
    IN body \o <<f_crc8(body)>>

\* the index get_payload asks for: the smallest one missing below the
\* terminal's N, or the one after the highest seq when there is no terminal
Wanted(t, src_arg) ==
    IF Terminals(t, src_arg) # {}
    THEN MinOf(MissingSeqs(t, src_arg))
    ELSE SeqLast(t, src_arg) + 1

Incomplete(t, src_arg) ==
    /\ FromSrc(t, src_arg) # {}
    /\ Terminals(t, src_arg) # {} => MissingSeqs(t, src_arg) # {}

C31_Step(t) ==
    IsGetPayload(t, NoneVal)
    => /\ tx_queue' # tx_queue
          => /\ Incomplete(t, NoneVal)
             /\ tx_queue' = Append(tx_queue, RetransmitOf(t, Wanted(t, NoneVal)))
             /\ Len(RetransmitOf(t, Wanted(t, NoneVal))) = 11
       /\ (txn[t].radio /\ Incomplete(t, NoneVal) /\ Wanted(t, NoneVal) <= 127)
          => tx_queue' # tx_queue

C31_RetransmitFrame == [][\A t \in Txns : C31_Step(t)]_vars

(***************************************************************************)
(* C32                                                                     *)
(***************************************************************************)
TxMode(reg) ==
    /\ ~reg.listening
    /\ reg.auto_ack
    /\ reg.retries = <<3, 15>>
    /\ reg.crc_length = 16
    /\ reg.dynamic_payloads
    /\ reg.channel = tx_channel_list[1]

RxMode(reg) ==
    /\ reg.listening
    /\ ~reg.auto_ack
    /\ reg.retries = <<0, 0>>
    /\ reg.channel = rx_channel_list[rx_channel_id + 1]

\* C32: every packet was written with the radio not listening, auto-ack on,
\* retries (3, 15), 16-bit CRC, dynamic payloads and the TX channel; while
\* receive() polls, the radio listens with auto-ack off, retries (0, 0), on
\* the hop list's current RX channel, also right after a hop.
C32_RadioModes ==
    /\ n_sent > 0 => TxMode(nrf.sent)
    /\ rx.t # 0 => RxMode(nrf.reg)

\* a second cycle has hopped away from the first channel and polls again
C32_Witness ==
    /\ n_sent >= 2
    /\ rx.t # 0
    /\ rx.left > 0
    /\ last.op = "poll"
    /\ rx_channel_id > 0
    /\ TxMode(nrf.sent)
    /\ RxMode(nrf.reg)

(***************************************************************************)
(* C33                                                                     *)
(***************************************************************************)
\* C33: on every parsed fragment of at least 10 bytes the dst accessor
\* returns bytes 5..9 of the frame as an unsigned 32-bit big-endian number
\* and does not fail.
C33_DstAccessor ==
    (codec.fn = "dst" /\ codec.done /\ Len(codec.arg) >= 10)
    => /\ codec.raised = ""
       /\ codec.v = unpack_be(Slice(codec.arg, 5, 9))

(***************************************************************************)
(* C34                                                                     *)
(***************************************************************************)
\* a step of the rxtx() call in progress: a turn of the receive loop, or
\* the return
InCycle == rx.t # 0 /\ last'.op \in {"poll", "receive", "rxtx"}

C34_Step(t) ==
    (IsRxtxCall(t) /\ txn[t].radio /\ Len(tx_queue) # 0)
    => /\ last'.op = "transmit"
       /\ last'.payload = Head(tx_queue)
       /\ tx_queue' = Tail(tx_queue)
       /\ n_sent' = n_sent + 1

\* C34: an rxtx() call with a radio and a non-empty queue removes exactly
\* the head packet and transmits exactly that one packet; the rest of the
\* call, however many fragments it receives and whatever it returns, neither
\* transmits again nor puts a packet back on the queue.
C34_OnePacketPerCycle ==
    [][/\ \A t \in Txns : C34_Step(t)
       /\ InCycle => (tx_queue' = tx_queue /\ n_sent' = n_sent)]_vars

\* rxtx() has returned False for the only request, and the queue is empty
C34_Witness ==
    /\ rx.t = 0
    /\ last.op = "rxtx"
    /\ last.kind = "False"
    /\ last.why = ""
    /\ n_sent = 1
    /\ tx_queue = <<>>

(***************************************************************************)
(* C35                                                                     *)
(***************************************************************************)
\* the call before this step was a get_payload() on t as well
Repeated(t) == last.op = "get_payload" /\ last.t = t /\ last.src = NoneVal

\* the step appends one packet, the same as the one before it in the queue
\* when the call is a repeated one
AppendsSame(t) ==
    /\ Len(tx_queue') = Len(tx_queue) + 1
    /\ SubSeq(tx_queue', 1, Len(tx_queue)) = tx_queue
    /\ (Repeated(t) /\ Len(tx_queue) > 0)
       => tx_queue'[Len(tx_queue')] = tx_queue[Len(tx_queue)]

\* C35 (as written): every failing get_payload call on an incomplete scratch
\* of a transaction with a radio appends one more copy of the same
\* retransmit request.
C35_Step(t) ==
    (IsGetPayload(t, NoneVal) /\ txn[t].radio /\ Incomplete(t, NoneVal))
    => AppendsSame(t)

C35_EveryCallEnqueues == [][\A t \in Txns : C35_Step(t)]_vars

\* C35 (amended): the same for a transaction made with both serials and a
\* missing index of at most 0x7F; a transaction without a serial, or a
\* missing index above 0x7F, enqueues nothing on any call.
C35_StepAmended(t) ==
    (IsGetPayload(t, NoneVal) /\ txn[t].radio /\ Incomplete(t, NoneVal))
    => IF HasSerials(t) /\ Wanted(t, NoneVal) <= 127
       THEN /\ AppendsSame(t)
            /\ last'.kind = "BufferError"
            /\ tx_queue'[Len(tx_queue')][10] = 128 + Wanted(t, NoneVal)
       ELSE /\ tx_queue' = tx_queue
            /\ last'.kind \in {"ValueError", "OverflowError"}

C35_NoDeduplication == [][\A t \in Txns : C35_StepAmended(t)]_vars

\* two get_payload calls in a row have left two equal requests behind the
\* transaction's own request
C35_Witness ==
    /\ last.op = "get_payload"
    /\ last.kind = "BufferError"
    /\ last.t # 0
    /\ Len(tx_queue) >= 3
    /\ tx_queue[Len(tx_queue)] = tx_queue[Len(tx_queue) - 1]
    /\ tx_queue[Len(tx_queue)][10] = 128 + last.frame_id

(***************************************************************************)
(* C36                                                                     *)
(***************************************************************************)
SeveralMissing(t, src_arg) ==
    /\ Terminals(t, src_arg) # {}
    /\ Cardinality(MissingSeqs(t, src_arg)) >= 2

\* the step leaves the queue alone or appends one request, for index i
AtMostRequest(i) ==
    \/ tx_queue' = tx_queue
    \/ /\ Len(tx_queue') = Len(tx_queue) + 1
       /\ SubSeq(tx_queue', 1, Len(tx_queue)) = tx_queue
       /\ tx_queue'[Len(tx_queue')][10] = 128 + i

\* C36 (as written): with the terminal fragment there and several indices
\* missing, one get_payload call requests no index but the smallest missing
\* one and reports that index as missing.
C36_Step(t, src_arg) ==
    (IsGetPayload(t, src_arg) /\ SeveralMissing(t, src_arg))
    => /\ AtMostRequest(MinOf(MissingSeqs(t, src_arg)))
       /\ last'.kind = "BufferError"
       /\ last'.frame_id = MinOf(MissingSeqs(t, src_arg))

C36_StepAmended(t, src_arg) ==
    (IsGetPayload(t, src_arg) /\ SeveralMissing(t, src_arg))
    => LET i == MinOf(MissingSeqs(t, src_arg))
       IN /\ AtMostRequest(i)
          /\ \A j \in MissingSeqs(t, src_arg) \ {i} :
                 \A k \in (Len(tx_queue) + 1)..Len(tx_queue') :
                     tx_queue'[k][10] # 128 + j
          /\ (txn[t].radio /\ HasSerials(t))
               => /\ tx_queue' # tx_queue
                  /\ last'.kind = "BufferError" /\ last'.frame_id = i
          /\ ~txn[t].radio
               => /\ tx_queue' = tx_queue
                  /\ last'.kind = "BufferError" /\ last'.frame_id = i
          /\ (txn[t].radio /\ ~HasSerials(t))
               => tx_queue' = tx_queue /\ last'.kind = "ValueError"

Extracted(t, src_arg) ==
    /\ last.op = "get_payload"
    /\ last.t = t
    /\ last.src = src_arg
    /\ last.kind = "ok"

\* C37: get_payload leaves the scratch of every transaction as it was,
\* whether it returns or raises; a get_payload call that follows a
\* successful one on the same transaction returns the same (cmd, payload).
C37_Step(t, src_arg) ==
    IsGetPayload(t, src_arg)
    => /\ \A u \in Txns : txn'[u].scratch = txn[u].scratch
       /\ Extracted(t, src_arg)
            => /\ last'.kind = "ok"
               /\ last'.cmd = last.cmd
               /\ last'.payload = last.payload

C37_ScratchKept ==
    [][\A t \in Txns, src_arg \in SrcArgs : C37_Step(t, src_arg)]_vars

\* a payload was extracted from three fragments, and all three are still
\* in the scratch
C37_Witness ==
    /\ last.op = "get_payload"
    /\ last.kind = "ok"
    /\ Len(last.payload) > 0
    /\ Len(txn[last.t].scratch) = 3
    /\ Complete(last.t, last.src)

(***************************************************************************)
(* C38                                                                     *)
(***************************************************************************)
HopList == {rx_channel_list[i] : i \in 1..Len(rx_channel_list)}

\* the index is one of the hop list, and a listening radio is tuned to the
\* entry it points at
C38_InList ==
    /\ rx_channel_id \in 0..(Len(rx_channel_list) - 1)
    /\ rx.t # 0 => /\ nrf.reg.channel \in HopList
                   /\ nrf.reg.channel = rx_channel_list[rx_channel_id + 1]

\* a hop goes to the next entry, the first after the last; entering
\* receive() leaves the index, the ack and the miss counter as they were
C38_Hop ==
    /\ Advances => rx_channel_id' = NextInHopList
    /\ (rx.t = 0 /\ rx'.t # 0)
       => /\ rx_channel_id' = rx_channel_id
          /\ rx_channel_ack' = rx_channel_ack
          /\ rx_error' = rx_error

\* C38: the RX channel index always lies within the hop list; each hop
\* moves it from i to (i + 1) mod the length of the list, so the channels
\* are visited in list order with wrap-around and the tuned channel is an
\* entry of the list; a new receive() call continues where the last one
\* stopped: it resets neither the index, nor the ack, nor the miss counter.
C38_HopOrder == [](C38_InList) /\ [][C38_Hop]_vars

\* the second receive() call has gone on from the fourth entry and wrapped
\* around to the first
C38_Witness ==
    /\ n_sent >= 2
    /\ rx.t # 0
    /\ last.op = "poll"
    /\ rx_error = Len(rx_channel_list)
    /\ rx_channel_id = 0
    /\ nrf.reg.channel = rx_channel_list[1]

(***************************************************************************)
(* C39                                                                     *)
(***************************************************************************)
\* the queued packets that are retransmit requests: eleven bytes
Retransmits == {k \in 1..Len(tx_queue) : Len(tx_queue[k]) = 11}

OpcodesFit == \A k \in Retransmits : tx_queue[k][10] \in 129..255

\* no terminal among the fragments from src, and the index after the
\* highest seq is 0x80 or 0x81
IndexOverflows(t, src_arg) ==
    /\ FromSrc(t, src_arg) # {}
    /\ Terminals(t, src_arg) = {}
    /\ SeqLast(t, src_arg) \in {127, 128}

\* C39 (as written): every queued retransmit request has an opcode byte in
\* 0x81..0xFF; with no terminal fragment and a highest seq of 0x7F or 0x80,
\* get_payload enqueues nothing and fails with an overflow error, not with
\* MissingFragment.
C39_Step(t, src_arg) ==
    (IsGetPayload(t, src_arg) /\ IndexOverflows(t, src_arg))
    => tx_queue' = tx_queue /\ last'.kind = "OverflowError"

C39_AlwaysOverflows ==
    [](OpcodesFit) /\ [][\A t \in Txns, src_arg \in SrcArgs : C39_Step(t, src_arg)]_vars

\* C39 (amended): every queued retransmit request has an opcode byte in
\* 0x81..0xFF; with no terminal fragment and a highest seq of 0x7F or 0x80,
\* get_payload enqueues nothing: on a transaction with a radio it fails
\* with an overflow error, on one without a radio with MissingFragment.
C39_StepAmended(t, src_arg) ==
    (IsGetPayload(t, src_arg) /\ IndexOverflows(t, src_arg))
    => /\ tx_queue' = tx_queue
       /\ last'.kind = IF txn[t].radio THEN "OverflowError" ELSE "BufferError"
       /\ last'.frame_id = SeqLast(t, src_arg) + 1

C39_OpcodeFits ==
    [](OpcodesFit) /\ [][\A t \in Txns, src_arg \in SrcArgs : C39_StepAmended(t, src_arg)]_vars

\* after the fragment with seq 0x7F, get_payload on a transaction with a
\* radio has raised OverflowError, and no request for it is queued
C39_Witness ==
    /\ last.op = "get_payload"
    /\ last.kind = "OverflowError"
    /\ txn[last.t].radio
    /\ Terminals(last.t, last.src) = {}
    /\ SeqLast(last.t, last.src) = 127
    /\ Retransmits = {}

====
